---- MODULE Spec2Model ----
(***************************************************************************)
(* News pipeline of scripts/fetch_news.py: the keyword classifier          *)
(* (classify_news_priority), the category-group mapper, the refinement     *)
(* cache (smart_refine_batch), the URL de-duplication (remove_duplicates)  *)
(* and one run of main over the CSV store.                                 *)
(*                                                                         *)
(* Text is a sequence of one-character strings, so that Python's           *)
(* `pattern.lower() in text` is an unanchored, case-folded substring test. *)
(***************************************************************************)
EXTENDS Integers, Sequences, FiniteSets, TLC

\* ------------------------------------------------------------------------
\* Bounds of the model
\* ------------------------------------------------------------------------
\* number of text fragments joined into a title given to the classifier
MaxTitleFragments ==
  2
\* number of text fragments joined into a summary given to the classifier
MaxSummaryFragments ==
  1
\* number of feed entries the searches of one run of main return
MaxBatch ==
  2
\* number of feed entries the searches of all runs return
MaxFetched ==
  2
\* number of feed entries the searches of all runs over damaged files return
MaxFaultFetched ==
  2
\* number of feed entries one attempt of an RSS fetch goes through
MaxFeedLen ==
  2
\* number of feed entries the searches of all runs over one adapter return
MaxCacheFetched ==
  3
\* length of the lists given to a merge call
MaxMergeLen ==
  2
\* number of times a merge call merges the same new list
MaxMerges ==
  2
\* number of rows a summary or a digest is made from
MaxDigestLen ==
  2
\* number of rows of the store that is repaired
MaxRepairRows ==
  2
\* number of runs of the repair
MaxRepairs ==
  2
\* number of text fragments joined into a title given to is_relevant_news
MaxNaverTitleFragments ==
  2
\* number of text fragments joined into a description given to it
MaxNaverDescriptionFragments ==
  1
\* number of items a paid provider returns to the cross-validation
MaxXvalLen ==
  2
\* number of text fragments joined into a title in the calls that look at
\* the country branch
MaxCountryFragments ==
  2
\* number of responses fetched over all runs of main between the cleaning
\* and the repair of the store
MaxHistoryFetched ==
  1

\* Python's None
None ==
  "None"

\* ------------------------------------------------------------------------
\* Keyword rule sets (module-level lists of fetch_news.py)
\* ------------------------------------------------------------------------
EXCLUDE_PATTERNS ==
  <<
    <<"uAD11","uACE0">>,   \* 광고
    <<"s","p","o","n","s","o","r","e","d">>,   \* sponsored
    <<"a","f","f","i","l","i","a","t","e">>,   \* affiliate
    <<"p","r","o","m","o","t","i","o","n">>,   \* promotion
    <<"uD504","uB85C","uBAA8","uC158">>,   \* 프로모션
    <<"uCEA0","uD398","uC778">>,   \* 캠페인
    <<"c","a","m","p","a","i","g","n">>,   \* campaign
    <<"uD31D","uC5C5">>,   \* 팝업
    <<"p","o","p","u","p">>,   \* popup
    <<"uCF5C","uB77C","uBCF4">>,   \* 콜라보
    <<"c","o","l","l","a","b","o","r","a","t","i","o","n">>,   \* collaboration
    <<"uCD9C","uC2DC">>,   \* 출시
    <<"l","a","u","n","c","h">>,   \* launch
    <<"uC2E0","uC81C","uD488">>,   \* 신제품
    <<"uD560","uC778">>,   \* 할인
    <<"s","a","l","e">>,   \* sale
    <<"uC138","uC77C">>,   \* 세일
    <<"uD611","uCC2C">>,   \* 협찬
    <<"uB9C8","uCF00","uD305">>,   \* 마케팅
    <<"P","P","L">>,   \* PPL
    <<"uBCF4","uB3C4","uC790","uB8CC">>,   \* 보도자료
    <<"b","r","a","n","d","e","d"," ","c","o","n","t","e","n","t">>,   \* branded content
    <<"uC8FC","uC2DD">>,   \* 주식
    <<"uC99D","uC2DC">>,   \* 증시
    <<"uCF54","uC2A4","uD53C">>,   \* 코스피
    <<"uCF54","uC2A4","uB2E5">>,   \* 코스닥
    <<"uB098","uC2A4","uB2E5">>,   \* 나스닥
    <<"uC7A5","uC911">>,   \* 장중
    <<"uC7A5"," ","uB9C8","uAC10">>,   \* 장 마감
    <<"uC7A5"," ","uCD08","uBC18">>,   \* 장 초반
    <<"uB9C8","uAC10"," ","uC9C0","uC218">>,   \* 마감 지수
    <<"uC8FC","uAC00">>,   \* 주가
    <<"uC8FC","uC2DD","uC2DC","uC7A5">>,   \* 주식시장
    <<"uD22C","uC790","uC790">>,   \* 투자자
    <<"uAE30","uAD00","uD22C","uC790","uC790">>,   \* 기관투자자
    <<"uC99D","uAD8C","uC0AC">>,   \* 증권사
    <<"uC99D","uAD8C","uAC00">>,   \* 증권가
    <<"uB9AC","uD3EC","uD2B8">>,   \* 리포트
    <<"uB9AC","uC11C","uCE58","uC13C","uD130">>,   \* 리서치센터
    <<"uC2E4","uC801","uBC1C","uD45C">>,   \* 실적발표
    <<"uBD84","uAE30"," ","uC2E4","uC801">>,   \* 분기 실적
    <<"uC5F0","uAC04"," ","uC2E4","uC801">>,   \* 연간 실적
    <<"s","t","o","c","k"," ","p","r","i","c","e">>,   \* stock price
    <<"e","a","r","n","i","n","g","s">>,   \* earnings
    <<"q","u","a","r","t","e","r","l","y"," ","e","a","r","n","i","n","g","s">>,   \* quarterly earnings
    <<"a","n","n","u","a","l"," ","e","a","r","n","i","n","g","s">>,   \* annual earnings
    <<"i","n","v","e","s","t","o","r">>,   \* investor
    <<"uD22C","uC790">>,   \* 투자
    <<"uBC30","uB2F9">>,   \* 배당
    <<"d","i","v","i","d","e","n","d">>,   \* dividend
    <<"uD380","uB4DC">>,   \* 펀드
    <<"E","T","F">>,   \* ETF
    <<"uB9AC","uCE20">>,   \* 리츠
    <<"uC7AC","uD14C","uD06C">>,   \* 재테크
    <<"I","P","O">>,   \* IPO
    <<"uACF5","uBAA8","uC8FC">>,   \* 공모주
    <<"I","R">>,   \* IR
    <<"c","o","n","f","e","r","e","n","c","e"," ","c","a","l","l">>,   \* conference call
    <<"uCC44","uC6A9">>,   \* 채용
    <<"uACF5","uCC44">>,   \* 공채
    <<"uC218","uC2DC","uCC44","uC6A9">>,   \* 수시채용
    <<"uCC44","uC6A9"," ","uACF5","uACE0">>,   \* 채용 공고
    <<"uC2E0","uC785","uC0AC","uC6D0">>,   \* 신입사원
    <<"uACBD","uB825","uC9C1">>,   \* 경력직
    <<"uC778","uC7AC"," ","uCC44","uC6A9">>,   \* 인재 채용
    <<"uAD6C","uC778">>,   \* 구인
    <<"uAD6C","uC778"," ","uACF5","uACE0">>,   \* 구인 공고
    <<"h","i","r","i","n","g">>,   \* hiring
    <<"j","o","b"," ","o","p","e","n","i","n","g">>,   \* job opening
    <<"c","a","r","e","e","r">>,   \* career
    <<"r","e","c","r","u","i","t","m","e","n","t">>,   \* recruitment
    <<"c","a","r","e","e","r"," ","f","a","i","r">>,   \* career fair
    <<"uCC44","uC6A9"," ","uC124","uBA85","uD68C">>,   \* 채용 설명회
    <<"uC778","uD134"," ","uBAA8","uC9D1">>,   \* 인턴 모집
    <<"uACF5","uBAA8","uC804">>,   \* 공모전
    <<"uAC78","uADF8","uB8F9">>,   \* 걸그룹
    <<"uBCF4","uC774","uADF8","uB8F9">>,   \* 보이그룹
    <<"uC544","uC774","uB3CC">>,   \* 아이돌
    <<"i","d","o","l">>,   \* idol
    <<"K","-","p","o","p">>,   \* K-pop
    <<"uCF58","uC11C","uD2B8">>,   \* 콘서트
    <<"c","o","n","c","e","r","t">>,   \* concert
    <<"uC568","uBC94">>,   \* 앨범
    <<"a","l","b","u","m">>,   \* album
    <<"uBBA4","uC9C1","uBE44","uB514","uC624">>,   \* 뮤직비디오
    <<"uD32C","uBBF8","uD305">>,   \* 팬미팅
    <<"f","a","n"," ","m","e","e","t","i","n","g">>,   \* fan meeting
    <<"M","A","M","A">>,   \* MAMA
    <<"A","w","a","r","d","s">>,   \* Awards
    <<"uC2DC","uC0C1","uC2DD">>,   \* 시상식
    <<"m","o","u","r","n","i","n","g">>,   \* mourning
    <<"uB4DC","uB77C","uB9C8">>,   \* 드라마
    <<"uC608","uB2A5">>,   \* 예능
    <<"uC2DC","uCCAD","uB960">>,   \* 시청률
    <<"uC608","uB2A5"," ","uD504","uB85C","uADF8","uB7A8">>,   \* 예능 프로그램
    <<"uB9AC","uC5BC","uB9AC","uD2F0","uC1FC">>,   \* 리얼리티쇼
    <<"O","T","T">>,   \* OTT
    <<"uB137","uD50C","uB9AD","uC2A4">>,   \* 넷플릭스
    <<"uB514","uC988","uB2C8","+">>,   \* 디즈니+
    <<"uD2F0","uBE59">>,   \* 티빙
    <<"uC6E8","uC774","uBE0C">>,   \* 웨이브
    <<"uCFE0","uD321","uD50C","uB808","uC774">>,   \* 쿠팡플레이
    <<"N","e","t","f","l","i","x">>,   \* Netflix
    <<"D","i","s","n","e","y","+">>,   \* Disney+
    <<"O","S","T">>,   \* OST
    <<"uC5F4","uC560","uC124">>,   \* 열애설
    <<"uACB0","uBCC4","uC124">>,   \* 결별설
    <<"uC5F0","uC608","uACC4">>,   \* 연예계
    <<"uC5F0","uC608","uC778"," ","uCEE4","uD50C">>,   \* 연예인 커플
    <<"uC2A4","uCE94","uB4E4">>,   \* 스캔들
    <<"uC601","uD654","uC81C">>,   \* 영화제
    <<"uB808","uB4DC","uCE74","uD3AB">>,   \* 레드카펫
    <<"c","e","l","e","b","r","i","t","y">>,   \* celebrity
    <<"e","n","t","e","r","t","a","i","n","m","e","n","t"," ","n","e","w","s">>,   \* entertainment news
    <<"s","h","o","w","b","i","z">>,   \* showbiz
    <<"uB358","uD0A8">>,   \* 던킨
    <<"uC2A4","uD0C0","uBC85","uC2A4">>,   \* 스타벅스
    <<"uB9E5","uB3C4","uB0A0","uB4DC">>,   \* 맥도날드
    <<"uBC84","uAC70","uD0B9">>,   \* 버거킹
    <<"uC5E0","uC564","uC5E0">>,   \* 엠앤엠
    <<"M","&","M">>,   \* M&M
    <<"uCD08","uCF5C","uB9BF">>,   \* 초콜릿
    <<"uCEE4","uD53C">>,   \* 커피
    <<"c","o","f","f","e","e">>,   \* coffee
    <<"uC74C","uB8CC">>,   \* 음료
    <<"uD328","uC158">>,   \* 패션
    <<"f","a","s","h","i","o","n">>,   \* fashion
    <<"uBDF0","uD2F0">>,   \* 뷰티
    <<"b","e","a","u","t","y">>,   \* beauty
    <<"uD654","uC7A5","uD488">>,   \* 화장품
    <<"c","o","s","m","e","t","i","c">>,   \* cosmetic
    <<"uC758","uB958">>,   \* 의류
    <<"c","l","o","t","h","i","n","g">>,   \* clothing
    <<"uC1FC","uD551">>,   \* 쇼핑
    <<"s","h","o","p","p","i","n","g">>,   \* shopping
    <<"uC790","uC8FC","uD3EC">>,   \* 자주포
    <<"uC804","uCC28">>,   \* 전차
    <<"uBBF8","uC0AC","uC77C">>,   \* 미사일
    <<"uBB34","uAE30">>,   \* 무기
    <<"uAD70","uC218">>,   \* 군수
    <<"uBC29","uC0B0">>,   \* 방산
    <<"uAD6D","uBC29">>,   \* 국방
    <<"K","9">>,   \* K9
    <<"K","2">>,   \* K2
    <<"uD55C","uD654","uC5D0","uC5B4","uB85C">>,   \* 한화에어로
    <<"uD55C","uD654","uB514","uD39C","uC2A4">>,   \* 한화디펜스
    <<"d","e","f","e","n","s","e"," ","c","o","n","t","r","a","c","t">>,   \* defense contract
    <<"m","i","l","i","t","a","r","y"," ","c","o","n","t","r","a","c","t">>,   \* military contract
    <<"a","r","m","s"," ","d","e","a","l">>,   \* arms deal
    <<"uBC29","uC704","uC0AC","uC5C5">>,   \* 방위사업
    <<"D","M","Z">>,   \* DMZ
    <<"K","o","r","e","a","n"," ","W","a","r"," ","s","o","l","d","i","e","r","s">>,   \* Korean War soldiers
    <<"uC720","uD574"," ","uBC1C","uAD74">>,   \* 유해 발굴
    <<"uC804","uC0AC","uC790">>,   \* 전사자
    <<"uB300","uD1B5","uB839">>,   \* 대통령
    <<"uAD6D","uD68C">>,   \* 국회
    <<"uC678","uAD50","uBD80">>,   \* 외교부
    <<"uC7A5","uAD00">>,   \* 장관
    <<"uC815","uC0C1","uD68C","uB2F4">>,   \* 정상회담
    <<"s","u","m","m","i","t">>,   \* summit
    <<"uC870","uC57D">>,   \* 조약
    <<"t","r","e","a","t","y">>,   \* treaty
    <<"uD611","uC815">>,   \* 협정
    <<"K","T"," ","uC704","uC988">>,   \* KT 위즈
    <<"k","t"," ","w","i","z">>,   \* kt wiz
    <<"K","T","uC704","uC988">>,   \* KT위즈
    <<"uD504","uB85C","uCD95","uAD6C">>,   \* 프로축구
    <<"uD504","uB85C","uC57C","uAD6C">>,   \* 프로야구
    <<"N","B","A">>,   \* NBA
    <<"M","L","B">>,   \* MLB
    <<"uC57C","uAD6C"," ","uACB0","uACFC">>,   \* 야구 결과
    <<"uCD95","uAD6C"," ","uACB0","uACFC">>,   \* 축구 결과
    <<"uACBD","uAE30"," ","uACB0","uACFC">>,   \* 경기 결과
    <<"uAD6C","uC6D0","uD22C","uC218">>,   \* 구원투수
    <<"uC2A4","uD1A0","uBE0C","uB9AC","uADF8">>,   \* 스토브리그
    <<"W","A","R"," ","uC804","uCCB4">>,   \* WAR 전체
    <<"uBD84","uC591">>,   \* 분양
    <<"uCCAD","uC57D">>,   \* 청약
    <<"uC785","uC8FC","uC790"," ","uBAA8","uC9D1">>,   \* 입주자 모집
    <<"uC804","uC138">>,   \* 전세
    <<"uC6D4","uC138">>,   \* 월세
    <<"uB9E4","uB9E4">>,   \* 매매
    <<"uC804","uC6D4","uC138">>,   \* 전월세
    <<"uC804","uC138","uAC00">>,   \* 전세가
    <<"uB9E4","uB9E4","uAC00">>,   \* 매매가
    <<"uC9D1","uAC12">>,   \* 집값
    <<"uC544","uD30C","uD2B8"," ","uB2E8","uC9C0">>,   \* 아파트 단지
    <<"uC624","uD53C","uC2A4","uD154">>,   \* 오피스텔
    <<"uC0C1","uAC00"," ","uBD84","uC591">>,   \* 상가 분양
    <<"uC624","uD53C","uC2A4"," ","uC784","uB300">>,   \* 오피스 임대
    <<"uBD80","uB3D9","uC0B0"," ","uC2DC","uC7A5">>,   \* 부동산 시장
    <<"uBD80","uB3D9","uC0B0"," ","uADDC","uC81C">>,   \* 부동산 규제
    <<"uBD80","uB3D9","uC0B0">>,   \* 부동산
    <<"r","e","a","l"," ","e","s","t","a","t","e">>,   \* real estate
    <<"h","o","u","s","i","n","g"," ","m","a","r","k","e","t">>,   \* housing market
    <<"uC624","uB298","uC758"," ","uB0A0","uC528">>,   \* 오늘의 날씨
    <<"uC8FC","uAC04"," ","uB0A0","uC528">>,   \* 주간 날씨
    <<"uAE30","uC0C1","uCCAD">>,   \* 기상청
    <<"uAE30","uC628">>,   \* 기온
    <<"uBBF8","uC138","uBA3C","uC9C0">>,   \* 미세먼지
    <<"uCCB4","uAC10","uC628","uB3C4">>,   \* 체감온도
    <<"uB0A0","uC528">>,   \* 날씨
    <<"w","e","a","t","h","e","r"," ","f","o","r","e","c","a","s","t">>,   \* weather forecast
    <<"w","e","e","k","l","y"," ","f","o","r","e","c","a","s","t">>,   \* weekly forecast
    <<"uB808","uC2DC","uD53C">>,   \* 레시피
    <<"uC694","uB9AC","uBC95">>,   \* 요리법
    <<"uC9D1","uBC25">>,   \* 집밥
    <<"uAC04","uD3B8","uC2DD">>,   \* 간편식
    <<"uB9DB","uC9D1"," ","uD0D0","uBC29">>,   \* 맛집 탐방
    <<"uC2DD","uB2F9"," ","uB9AC","uBDF0">>,   \* 식당 리뷰
    <<"uCE74","uD398"," ","uCD94","uCC9C">>,   \* 카페 추천
    <<"r","e","s","t","a","u","r","a","n","t"," ","r","e","v","i","e","w">>,   \* restaurant review
    <<"f","o","o","d"," ","b","l","o","g">>,   \* food blog
    <<"uB9DB","uC9D1">>,   \* 맛집
    <<"r","e","s","t","a","u","r","a","n","t">>,   \* restaurant
    <<"uC5EC","uD589">>,   \* 여행
    <<"t","r","a","v","e","l"," ","t","i","p">>,   \* travel tip
    <<"i","m","m","i","g","r","a","t","i","o","n"," ","p","r","o","t","e","s","t">>,   \* immigration protest
    <<"h","i","n","d","u"," ","p","r","o","t","e","s","t">>,   \* hindu protest
    <<"f","a","r","m","e","r"," ","p","r","o","t","e","s","t">>   \* farmer protest
  >>

HIGH_PRIORITY_critical ==
  <<
    <<"i","n","t","e","r","n","e","t"," ","s","h","u","t","d","o","w","n">>,   \* internet shutdown
    <<"b","l","a","c","k","o","u","t">>,   \* blackout
    <<"p","o","w","e","r"," ","o","u","t","a","g","e">>,   \* power outage
    <<"o","u","t","a","g","e">>,   \* outage
    <<"w","a","r">>,   \* war
    <<"e","x","p","l","o","s","i","o","n">>,   \* explosion
    <<"b","o","m","b","i","n","g">>,   \* bombing
    <<"a","t","t","a","c","k">>,   \* attack
    <<"t","e","r","r","o","r","i","s","m">>,   \* terrorism
    <<"t","e","r","r","o","r","i","s","t">>,   \* terrorist
    <<"e","a","r","t","h","q","u","a","k","e">>,   \* earthquake
    <<"f","l","o","o","d">>,   \* flood
    <<"d","i","s","a","s","t","e","r">>,   \* disaster
    <<"e","m","e","r","g","e","n","c","y">>,   \* emergency
    <<"t","s","u","n","a","m","i">>,   \* tsunami
    <<"t","y","p","h","o","o","n">>,   \* typhoon
    <<"c","u","r","f","e","w">>,   \* curfew
    <<"p","r","o","t","e","s","t">>,   \* protest
    <<"r","i","o","t">>,   \* riot
    <<"s","t","r","i","k","e">>,   \* strike
    <<"u","n","r","e","s","t">>,   \* unrest
    <<"s","h","u","t","d","o","w","n">>,   \* shutdown
    <<"b","a","n">>,   \* ban
    <<"b","l","o","c","k">>,   \* block
    <<"c","e","n","s","o","r","s","h","i","p">>   \* censorship
  >>

HIGH_PRIORITY_countries ==
  <<
    <<"I","r","a","q">>,   \* Iraq
    <<"P","a","k","i","s","t","a","n">>,   \* Pakistan
    <<"T","u","r","k","e","y">>,   \* Turkey
    <<"R","u","s","s","i","a">>,   \* Russia
    <<"E","g","y","p","t">>,   \* Egypt
    <<"S","a","u","d","i"," ","A","r","a","b","i","a">>,   \* Saudi Arabia
    <<"I","n","d","o","n","e","s","i","a">>,   \* Indonesia
    <<"H","o","n","g"," ","K","o","n","g">>,   \* Hong Kong
    <<"I","r","a","n">>,   \* Iran
    <<"S","y","r","i","a">>,   \* Syria
    <<"B","a","g","h","d","a","d">>,   \* Baghdad
    <<"K","a","r","a","c","h","i">>,   \* Karachi
    <<"I","s","t","a","n","b","u","l">>,   \* Istanbul
    <<"M","o","s","c","o","w">>,   \* Moscow
    <<"C","a","i","r","o">>,   \* Cairo
    <<"J","a","k","a","r","t","a">>   \* Jakarta
  >>

MEDIUM_RULES_gaming ==
  <<
    <<"P","U","B","G">>,   \* PUBG
    <<"p","u","b","g"," ","m","o","b","i","l","e">>,   \* pubg mobile
    <<"b","a","t","t","l","e","g","r","o","u","n","d","s"," ","m","o","b","i","l","e">>,   \* battlegrounds mobile
    <<"K","r","a","f","t","o","n">>,   \* Krafton
    <<"B","G","M","I">>,   \* BGMI
    <<"P","M","G","C">>,   \* PMGC
    <<"P","M","P","L">>,   \* PMPL
    <<"p","u","b","g"," ","e","s","p","o","r","t","s">>,   \* pubg esports
    <<"F","r","e","e"," ","F","i","r","e">>,   \* Free Fire
    <<"C","a","l","l"," ","o","f"," ","D","u","t","y"," ","M","o","b","i","l","e">>,   \* Call of Duty Mobile
    <<"C","O","D"," ","M","o","b","i","l","e">>,   \* COD Mobile
    <<"m","o","b","i","l","e"," ","g","a","m","e"," ","r","e","v","e","n","u","e">>,   \* mobile game revenue
    <<"m","o","b","i","l","e"," ","g","a","m","e"," ","u","p","d","a","t","e">>,   \* mobile game update
    <<"g","a","m","e"," ","p","a","t","c","h">>,   \* game patch
    <<"e","s","p","o","r","t","s"," ","t","o","u","r","n","a","m","e","n","t">>,   \* esports tournament
    <<"e","-","s","p","o","r","t","s"," ","c","h","a","m","p","i","o","n","s","h","i","p">>,   \* e-sports championship
    <<"uD38D","uC9C0">>,   \* 펍지
    <<"uBC30","uD2C0","uADF8","uB77C","uC6B4","uB4DC">>,   \* 배틀그라운드
    <<"uD06C","uB798","uD504","uD1A4">>,   \* 크래프톤
    <<"uBAA8","uBC14","uC77C","uAC8C","uC784"," ","uB9E4","uCD9C">>,   \* 모바일게임 매출
    <<"uAC8C","uC784"," ","uC5C5","uB370","uC774","uD2B8">>   \* 게임 업데이트
  >>

MEDIUM_RULES_holiday ==
  <<
    <<"n","a","t","i","o","n","a","l"," ","h","o","l","i","d","a","y">>,   \* national holiday
    <<"p","u","b","l","i","c"," ","h","o","l","i","d","a","y">>,   \* public holiday
    <<"b","a","n","k"," ","h","o","l","i","d","a","y">>,   \* bank holiday
    <<"E","i","d"," ","a","l","-","F","i","t","r">>,   \* Eid al-Fitr
    <<"E","i","d"," ","a","l","-","A","d","h","a">>,   \* Eid al-Adha
    <<"C","h","r","i","s","t","m","a","s"," ","D","a","y">>,   \* Christmas Day
    <<"N","e","w"," ","Y","e","a","r"," ","D","a","y">>,   \* New Year Day
    <<"R","a","m","a","d","a","n"," ","b","e","g","i","n","s">>,   \* Ramadan begins
    <<"D","i","w","a","l","i"," ","c","e","l","e","b","r","a","t","i","o","n">>,   \* Diwali celebration
    <<"uAD6D","uACBD","uC77C">>,   \* 국경일
    <<"uACF5","uD734","uC77C">>,   \* 공휴일
    <<"uBA85","uC808"," ","uC5F0","uD734">>,   \* 명절 연휴
    <<"uCD94","uC11D">>,   \* 추석
    <<"uC124","uB0A0">>   \* 설날
  >>

MEDIUM_RULES_school ==
  <<
    <<"s","c","h","o","o","l"," ","h","o","l","i","d","a","y">>,   \* school holiday
    <<"s","c","h","o","o","l"," ","v","a","c","a","t","i","o","n">>,   \* school vacation
    <<"e","x","a","m"," ","p","e","r","i","o","d">>,   \* exam period
    <<"s","e","m","e","s","t","e","r"," ","b","r","e","a","k">>,   \* semester break
    <<"s","u","m","m","e","r"," ","v","a","c","a","t","i","o","n">>,   \* summer vacation
    <<"w","i","n","t","e","r"," ","v","a","c","a","t","i","o","n">>,   \* winter vacation
    <<"uBC29","uD559"," ","uC2DC","uC791">>,   \* 방학 시작
    <<"uC2DC","uD5D8"," ","uAE30","uAC04">>,   \* 시험 기간
    <<"uAC1C","uD559">>   \* 개학
  >>


HIGH_PRIORITY_KEYWORDS ==
  [critical |-> HIGH_PRIORITY_critical, countries |-> HIGH_PRIORITY_countries]

\* dict in insertion order: gaming, holiday, school
MEDIUM_RULES ==
  << [category |-> "gaming",  keywords |-> MEDIUM_RULES_gaming],
     [category |-> "holiday", keywords |-> MEDIUM_RULES_holiday],
     [category |-> "school",  keywords |-> MEDIUM_RULES_school] >>

\* ------------------------------------------------------------------------
\* String helpers: str.lower(), `in`, concatenation with a blank
\* ------------------------------------------------------------------------
UpperCase ==
  <<"A","B","C","D","E","F","G","H","I","J","K","L","M",
    "N","O","P","Q","R","S","T","U","V","W","X","Y","Z">>

LowerCase ==
  <<"a","b","c","d","e","f","g","h","i","j","k","l","m",
    "n","o","p","q","r","s","t","u","v","w","x","y","z">>

CaseMap ==
  [c \in {UpperCase[i] : i \in 1..26} |->
      LowerCase[CHOOSE i \in 1..26 : UpperCase[i] = c]]

\* one character of str.lower(): A-Z fold, everything else (digits,
\* punctuation, Hangul) is unchanged
lower_char(c) ==
  IF c \in DOMAIN CaseMap THEN CaseMap[c] ELSE c

\* s.lower()
str_lower(s) ==
  [i \in 1..Len(s) |-> lower_char(s[i])]

\* Python `pat in text` on strings: pat occurs at some offset of text
str_in(pat, text) ==
  \E i \in 0..(Len(text) - Len(pat)) :
     \A j \in 1..Len(pat) : text[i + j] = pat[j]

\* some element p of the list has p.lower() in text
any_keyword_in(keywords, text) ==
  \E k \in DOMAIN keywords : str_in(str_lower(keywords[k]), text)

\* ------------------------------------------------------------------------
\* Classifier
\* ------------------------------------------------------------------------
\* the (priority, news_type, auto_category) tuple
Triple(p, t, c) ==
  [priority |-> p, news_type |-> t, auto_category |-> c]

\* the result returned for a MEDIUM_RULES group (lines 870-875)
medium_result(category) ==
  IF category = "gaming" THEN Triple("medium", "gaming", "gaming")
  ELSE IF category = "holiday" THEN Triple("medium", "traffic_impact", "holiday")
  ELSE Triple("medium", "traffic_impact", "school_calendar")

\* the MEDIUM_RULES groups, by position, that have a keyword in text
matching_groups(text) ==
  {g \in DOMAIN MEDIUM_RULES : any_keyword_in(MEDIUM_RULES[g].keywords, text)}

\* variant: the last matching group decides
last_group(groups) ==
  CHOOSE g \in groups : \A h \in groups : g >= h

\* the outer loop over MEDIUM_RULES.items() returns at the first group, in
\* dict order, that has a matching keyword
first_group(groups) ==
  CHOOSE g \in groups : \A h \in groups : g <= h

\* variant of the country branch: a watched country name is enough
country_alone(text) ==
  \E c \in DOMAIN HIGH_PRIORITY_KEYWORDS.countries :
     str_in(str_lower(HIGH_PRIORITY_KEYWORDS.countries[c]), text)

\* country branch (lines 859-864): a watched country name together with a
\* critical keyword
country_and_critical(text) ==
  \E c \in DOMAIN HIGH_PRIORITY_KEYWORDS.countries :
     /\ str_in(str_lower(HIGH_PRIORITY_KEYWORDS.countries[c]), text)
     /\ any_keyword_in(HIGH_PRIORITY_KEYWORDS.critical, text)

\* variant: the critical keywords are looked at before the exclusions
classify_high_before_exclude(title, summary) ==
  LET text == str_lower(title \o <<" ">> \o summary)
      groups == matching_groups(text)
  IN  IF any_keyword_in(HIGH_PRIORITY_KEYWORDS.critical, text)
        THEN Triple("high", "traffic_impact", None)
      ELSE IF any_keyword_in(EXCLUDE_PATTERNS, text)
        THEN Triple("low", None, None)
      ELSE IF groups # {}
        THEN medium_result(MEDIUM_RULES[first_group(groups)].category)
      ELSE Triple("low", None, None)

\* variant: the medium rules are looked at before the critical keywords
classify_medium_before_high(title, summary) ==
  LET text == str_lower(title \o <<" ">> \o summary)
      groups == matching_groups(text)
  IN  IF any_keyword_in(EXCLUDE_PATTERNS, text)
        THEN Triple("low", None, None)
      ELSE IF groups # {}
        THEN medium_result(MEDIUM_RULES[first_group(groups)].category)
      ELSE IF any_keyword_in(HIGH_PRIORITY_KEYWORDS.critical, text)
        THEN Triple("high", "traffic_impact", None)
      ELSE Triple("low", None, None)

\* variant: the former default ('medium', 'gaming', 'gaming') of line 878
classify_default_gaming(title, summary) ==
  LET text == str_lower(title \o <<" ">> \o summary)
      groups == matching_groups(text)
  IN  IF any_keyword_in(EXCLUDE_PATTERNS, text)
        THEN Triple("low", None, None)
      ELSE IF any_keyword_in(HIGH_PRIORITY_KEYWORDS.critical, text)
        THEN Triple("high", "traffic_impact", None)
      ELSE IF groups # {}
        THEN medium_result(MEDIUM_RULES[first_group(groups)].category)
      ELSE Triple("medium", "gaming", "gaming")

classify_news_priority(title, summary) ==
  LET text == str_lower(title \o <<" ">> \o summary)
      groups == matching_groups(text)
  IN  IF any_keyword_in(EXCLUDE_PATTERNS, text)
        THEN Triple("low", None, None)
      ELSE IF any_keyword_in(HIGH_PRIORITY_KEYWORDS.critical, text)
        THEN Triple("high", "traffic_impact", None)
      ELSE IF country_and_critical(text)
        THEN Triple("high", "traffic_impact", None)
      ELSE IF groups # {}
        THEN medium_result(MEDIUM_RULES[first_group(groups)].category)
      ELSE Triple("low", None, None)

\* classify_news_priority over another list HIGH_PRIORITY_KEYWORDS['countries']
classify_news_priority_with(title, summary, countries) ==
  LET text == str_lower(title \o <<" ">> \o summary)
      groups == matching_groups(text)
  IN  IF any_keyword_in(EXCLUDE_PATTERNS, text)
        THEN Triple("low", None, None)
      ELSE IF any_keyword_in(HIGH_PRIORITY_KEYWORDS.critical, text)
        THEN Triple("high", "traffic_impact", None)
      ELSE IF \E c \in DOMAIN countries :
                 /\ str_in(str_lower(countries[c]), text)
                 /\ any_keyword_in(HIGH_PRIORITY_KEYWORDS.critical, text)
        THEN Triple("high", "traffic_impact", None)
      ELSE IF groups # {}
        THEN medium_result(MEDIUM_RULES[first_group(groups)].category)
      ELSE Triple("low", None, None)

\* ------------------------------------------------------------------------
\* Inputs of the classifier: titles and summaries built from fragments
\* ------------------------------------------------------------------------
Fragments ==
  {
    <<"I","n","t","e","r","n","e","t"," ","s","h","u","t","d","o","w","n"," ","h","i","t","s"," ","J","a","k","a","r","t","a">>,   \* Internet shutdown hits Jakarta
    <<"P","U","B","G"," ","M","o","b","i","l","e"," ","u","p","d","a","t","e"," ","3",".","5"," ","a","d","d","s"," ","n","e","w"," ","m","a","p">>,   \* PUBG Mobile update 3.5 adds new map
    <<"I","d","o","l"," ","g","r","o","u","p"," ","a","n","n","o","u","n","c","e","s"," ","c","o","m","e","b","a","c","k"," ","c","o","n","c","e","r","t">>,   \* Idol group announces comeback concert
    <<"P","u","b","l","i","c"," ","h","o","l","i","d","a","y">>,   \* Public holiday
    <<"S","c","h","o","o","l"," ","v","a","c","a","t","i","o","n">>,   \* School vacation
    <<"A","w","a","r","d","s">>,   \* Awards
    <<"w","a","r","n","i","n","g">>,   \* warning
    <<"J","a","k","a","r","t","a">>,   \* Jakarta
    <<"w","e","e","k","l","y"," ","n","e","w","s">>,   \* weekly news
    <<"uD38D","uC9C0">>   \* 펍지
  }

RECURSIVE JoinFragments(_)
\* the fragments of a sequence joined by single blanks
JoinFragments(fs) ==
  IF fs = << >> THEN << >>
  ELSE IF Len(fs) = 1 THEN fs[1]
  ELSE fs[1] \o <<" ">> \o JoinFragments(Tail(fs))

\* all texts made of at most n fragments
TextsUpTo(n) ==
  {JoinFragments(fs) : fs \in UNION {[1..k -> Fragments] : k \in 0..n}}

Titles ==
  TextsUpTo(MaxTitleFragments)

Summaries ==
  TextsUpTo(MaxSummaryFragments)

\* ------------------------------------------------------------------------
\* Values of a news item's fields
\* ------------------------------------------------------------------------
\* a blank CSV cell as pandas reads it back (float nan), for a label cell
NaN ==
  "NaN"

\* the same for a text cell (title, summary, url); no text holds this token
NaN_text ==
  <<"NaN">>

\* Python truthiness of a label value: None and '' are falsy, nan is truthy
falsy(v) ==
  v \in {None, ""}

\* ------------------------------------------------------------------------
\* Category-group mapper
\* ------------------------------------------------------------------------
outage_block ==
  {"internet_shutdown", "tech_outage", "power_outage", "censorship",
   "cyber_attack", "infrastructure_damage"}

social_crisis ==
  {"war_conflict", "terrorism_explosion", "natural_disaster",
   "protest_strike", "curfew", "pandemic", "economic"}

seasonal_calendar ==
  {"holiday", "school_calendar", "election"}

gaming_competitor ==
  {"gaming", "competitor_game", "social_trend", "sports_event", "major_event"}

\* the else branch returning the gaming group
map_unknown_to_gaming(detail_category) ==
  IF detail_category \in outage_block THEN "outage_block"
  ELSE IF detail_category \in social_crisis THEN "social_crisis"
  ELSE IF detail_category \in seasonal_calendar THEN "seasonal_calendar"
  ELSE "gaming_competitor"

map_to_group_category(detail_category) ==
  IF detail_category \in outage_block THEN "outage_block"
  ELSE IF detail_category \in social_crisis THEN "social_crisis"
  ELSE IF detail_category \in seasonal_calendar THEN "seasonal_calendar"
  ELSE IF detail_category \in gaming_competitor THEN "gaming_competitor"
  ELSE "other"

\* ------------------------------------------------------------------------
\* RSS adapter
\* ------------------------------------------------------------------------
\* the feed entries a search can return: title, summary, link and the day of
\* publication (all within the last 24 hours)
FeedEntries ==
  <<
    \* 1: "Internet shutdown hits Jakarta", link "u1"
    [title |-> <<"I","n","t","e","r","n","e","t"," ","s","h","u","t","d","o","w","n"," ","h","i","t","s"," ","J","a","k","a","r","t","a">>,
     summary |-> <<>>, link |-> <<"u","1">>, date |-> 2],
    \* 2: "PUBG Mobile update 3.5 adds new map", link "u2"
    [title |-> <<"P","U","B","G"," ","M","o","b","i","l","e"," ","u","p","d","a","t","e"," ","3",".","5"," ","a","d","d","s"," ","n","e","w"," ","m","a","p">>,
     summary |-> <<>>, link |-> <<"u","2">>, date |-> 1],
    \* 3: "Idol group announces comeback concert", link "u3"
    [title |-> <<"I","d","o","l"," ","g","r","o","u","p"," ","a","n","n","o","u","n","c","e","s"," ","c","o","m","e","b","a","c","k"," ","c","o","n","c","e","r","t">>,
     summary |-> <<>>, link |-> <<"u","3">>, date |-> 2],
    \* 4: "Public holiday", link "u4"
    [title |-> <<"P","u","b","l","i","c"," ","h","o","l","i","d","a","y">>,
     summary |-> <<>>, link |-> <<"u","4">>, date |-> 1],
    \* 5: "warning", link ""
    [title |-> <<"w","a","r","n","i","n","g">>,
     summary |-> <<>>, link |-> <<>>, date |-> 2]
  >>

\* classify_news_priority(clean_title, clean_summary) of each feed entry
classified ==
  [e \in 1..Len(FeedEntries) |->
      classify_news_priority(FeedEntries[e].title, FeedEntries[e].summary)]

\* the news_item dict built for entry e (keys a dict does not have read as
\* None, skip as False)
rss_news_item(e) ==
  [date |-> FeedEntries[e].date,
   title |-> FeedEntries[e].title,
   summary |-> FeedEntries[e].summary,
   url |-> FeedEntries[e].link,
   category |-> IF classified[e].auto_category # None
                  THEN classified[e].auto_category ELSE "gaming",
   news_type |-> IF classified[e].news_type # None
                   THEN classified[e].news_type ELSE "gaming",
   priority |-> classified[e].priority,
   category_group |-> None,
   traffic_impact |-> None,
   api_source |-> None,
   skip |-> FALSE]

\* the entries one attempt appends to news_list when it goes through the
\* entries es (lines 1173-1217): LOW is left out
rss_appended_keep_low(es) ==
  [i \in 1..Len(es) |-> rss_news_item(es[i])]

rss_appended(es) ==
  LET kept == SelectSeq(es, LAMBDA e : classified[e].priority # "low")
  IN  [i \in 1..Len(kept) |-> rss_news_item(kept[i])]

\* fetch_news_from_rss(keyword, max_retries = 3)
max_retries ==
  3

\* what one attempt does: status "ok" when the loop over items (the entries
\* of the feed) completes, "raised" when an exception ends the attempt after
\* the entries items were gone through
RssAttempt(status, items) ==
  [status |-> status, items |-> items]

\* one attempt too many
in_range_and_one(attempt, n) ==
  attempt <= n

\* for attempt in range(max_retries): the loop goes on for attempt
in_range(attempt, n) ==
  attempt < n

\* fetch_from_groq(news_items, batch_size = 5)
batch_size ==
  5

\* high_priority[:10] of smart_refine_batch
top_news_max ==
  10

RECURSIVE rss_retry(_, _, _)
\* lines 1164-1227: the attempts from number attempt on, news_list so far
rss_retry(attempts, attempt, news_list) ==
  IF attempt >= max_retries \/ attempt >= Len(attempts) THEN news_list
  ELSE LET a == attempts[attempt + 1]
           list == news_list \o rss_appended(a.items)
       IN  IF a.status = "ok" THEN list
           ELSE rss_retry(attempts, attempt + 1, list)

\* the list returned when the attempts end as given
fetch_news_from_rss(attempts) ==
  rss_retry(attempts, 0, << >>)


\* ------------------------------------------------------------------------
\* Naver adapter: the second classification path
\* ------------------------------------------------------------------------
NEGATIVE_KEYWORDS ==
  <<
    <<"uCEA0","uD398","uC778">>,   \* 캠페인
    <<"uD504","uB85C","uBAA8","uC158">>,   \* 프로모션
    <<"uC774","uBCA4","uD2B8">>,   \* 이벤트
    <<"uCD9C","uC2DC">>,   \* 출시
    <<"uC2E0","uC81C","uD488">>,   \* 신제품
    <<"uD560","uC778">>,   \* 할인
    <<"uC138","uC77C">>,   \* 세일
    <<"uD31D","uC5C5">>,   \* 팝업
    <<"uCF5C","uB77C","uBCF4">>,   \* 콜라보
    <<"c","a","m","p","a","i","g","n">>,   \* campaign
    <<"p","r","o","m","o","t","i","o","n">>,   \* promotion
    <<"l","a","u","n","c","h">>,   \* launch
    <<"s","a","l","e">>,   \* sale
    <<"p","o","p","u","p">>,   \* popup
    <<"c","o","l","l","a","b","o","r","a","t","i","o","n">>,   \* collaboration
    <<"uAC78","uADF8","uB8F9">>,   \* 걸그룹
    <<"uBCF4","uC774","uADF8","uB8F9">>,   \* 보이그룹
    <<"uC544","uC774","uB3CC">>,   \* 아이돌
    <<"uCF58","uC11C","uD2B8">>,   \* 콘서트
    <<"uC568","uBC94">>,   \* 앨범
    <<"uBBA4","uC9C1","uBE44","uB514","uC624">>,   \* 뮤직비디오
    <<"uD32C","uBBF8","uD305">>,   \* 팬미팅
    <<"uB358","uD0A8">>,   \* 던킨
    <<"uC2A4","uD0C0","uBC85","uC2A4">>,   \* 스타벅스
    <<"uB9E5","uB3C4","uB0A0","uB4DC">>,   \* 맥도날드
    <<"uBC84","uAC70","uD0B9">>,   \* 버거킹
    <<"uC5E0","uC564","uC5E0">>,   \* 엠앤엠
    <<"uCD08","uCF5C","uB9BF">>,   \* 초콜릿
    <<"uCEE4","uD53C">>,   \* 커피
    <<"uD328","uC158">>,   \* 패션
    <<"uBDF0","uD2F0">>,   \* 뷰티
    <<"uD654","uC7A5","uD488">>,   \* 화장품
    <<"uC758","uB958">>,   \* 의류
    <<"uC1FC","uD551">>   \* 쇼핑
  >>

GAMING_REQUIRED_KEYWORDS ==
  <<
    <<"p","u","b","g">>,   \* pubg
    <<"uD38D","uC9C0">>,   \* 펍지
    <<"uBC30","uD2C0","uADF8","uB77C","uC6B4","uB4DC">>,   \* 배틀그라운드
    <<"uD06C","uB798","uD504","uD1A4">>,   \* 크래프톤
    <<"k","r","a","f","t","o","n">>,   \* krafton
    <<"b","g","m","i">>,   \* bgmi
    <<"p","m","g","c">>,   \* pmgc
    <<"p","m","p","l">>,   \* pmpl
    <<"p","c","s">>,   \* pcs
    <<"p","g","c">>,   \* pgc
    <<"f","p","s">>,   \* fps
    <<"f","p","s","uAC8C","uC784">>,   \* fps게임
    <<"f","p","s"," ","uAC8C","uC784">>,   \* fps 게임
    <<"uC288","uD130">>,   \* 슈터
    <<"s","h","o","o","t","e","r">>,   \* shooter
    <<"uBC30","uD2C0","uB85C","uC584">>,   \* 배틀로얄
    <<"b","a","t","t","l","e"," ","r","o","y","a","l","e">>,   \* battle royale
    <<"uBC30","uD2C0"," ","uB85C","uC584">>,   \* 배틀 로얄
    <<"f","r","e","e"," ","f","i","r","e">>,   \* free fire
    <<"uD504","uB9AC","uD30C","uC774","uC5B4">>,   \* 프리파이어
    <<"uAC00","uB808","uB098">>,   \* 가레나
    <<"g","a","r","e","n","a">>,   \* garena
    <<"c","a","l","l"," ","o","f"," ","d","u","t","y"," ","m","o","b","i","l","e">>,   \* call of duty mobile
    <<"c","o","d"," ","m","o","b","i","l","e">>,   \* cod mobile
    <<"uCF5C","uC624","uBE0C","uB4C0","uD2F0"," ","uBAA8","uBC14","uC77C">>,   \* 콜오브듀티 모바일
    <<"a","p","e","x"," ","l","e","g","e","n","d","s"," ","m","o","b","i","l","e">>,   \* apex legends mobile
    <<"uC5D0","uC774","uD399","uC2A4"," ","uB808","uC804","uB4DC"," ","uBAA8","uBC14","uC77C">>,   \* 에이펙스 레전드 모바일
    <<"f","o","r","t","n","i","t","e"," ","m","o","b","i","l","e">>,   \* fortnite mobile
    <<"uD3EC","uD2B8","uB098","uC774","uD2B8"," ","uBAA8","uBC14","uC77C">>,   \* 포트나이트 모바일
    <<"r","o","b","l","o","x">>,   \* roblox
    <<"uB85C","uBE14","uB85D","uC2A4">>,   \* 로블록스
    <<"f","o","r","t","n","i","t","e">>,   \* fortnite
    <<"uD3EC","uD2B8","uB098","uC774","uD2B8">>,   \* 포트나이트
    <<"a","p","e","x"," ","l","e","g","e","n","d","s">>,   \* apex legends
    <<"uC5D0","uC774","uD399","uC2A4"," ","uB808","uC804","uB4DC">>,   \* 에이펙스 레전드
    <<"uC5D0","uC774","uD399","uC2A4">>,   \* 에이펙스
    <<"m","o","b","i","l","e"," ","e","s","p","o","r","t","s">>,   \* mobile esports
    <<"uBAA8","uBC14","uC77C"," ","e","uC2A4","uD3EC","uCE20">>,   \* 모바일 e스포츠
    <<"uBAA8","uBC14","uC77C"," ","uC774","uC2A4","uD3EC","uCE20">>   \* 모바일 이스포츠
  >>

TRAFFIC_IMPACT_disaster ==
  <<
    <<"uC9C0","uC9C4"," ","uBC1C","uC0DD">>,   \* 지진 발생
    <<"uC9C0","uC9C4"," ","uD53C","uD574">>,   \* 지진 피해
    <<"uD0DC","uD48D"," ","uC0C1","uB959">>,   \* 태풍 상륙
    <<"uD0DC","uD48D"," ","uD53C","uD574">>,   \* 태풍 피해
    <<"uD64D","uC218"," ","uD53C","uD574">>,   \* 홍수 피해
    <<"uD3ED","uC6B0"," ","uD53C","uD574">>,   \* 폭우 피해
    <<"e","a","r","t","h","q","u","a","k","e"," ","h","i","t">>,   \* earthquake hit
    <<"t","y","p","h","o","o","n"," ","d","a","m","a","g","e">>,   \* typhoon damage
    <<"f","l","o","o","d"," ","d","a","m","a","g","e">>   \* flood damage
  >>

TRAFFIC_IMPACT_conflict ==
  <<
    <<"uC804","uC7C1"," ","uBC1C","uBC1C">>,   \* 전쟁 발발
    <<"uAD70","uC0AC"," ","uCDA9","uB3CC">>,   \* 군사 충돌
    <<"uD3ED","uD0C4"," ","uD14C","uB7EC">>,   \* 폭탄 테러
    <<"uBB34","uB825"," ","uCDA9","uB3CC">>,   \* 무력 충돌
    <<"uBBF8","uC0AC","uC77C"," ","uACF5","uACA9">>,   \* 미사일 공격
    <<"w","a","r"," ","o","u","t","b","r","e","a","k">>,   \* war outbreak
    <<"m","i","l","i","t","a","r","y"," ","c","o","n","f","l","i","c","t">>,   \* military conflict
    <<"b","o","m","b","i","n","g">>,   \* bombing
    <<"m","i","s","s","i","l","e"," ","a","t","t","a","c","k">>   \* missile attack
  >>

TRAFFIC_IMPACT_outage ==
  <<
    <<"uC778","uD130","uB137"," ","uCC28","uB2E8">>,   \* 인터넷 차단
    <<"uD1B5","uC2E0"," ","uC7A5","uC560">>,   \* 통신 장애
    <<"uC815","uC804"," ","uC0AC","uD0DC">>,   \* 정전 사태
    <<"uC11C","uBE44","uC2A4"," ","uC7A5","uC560">>,   \* 서비스 장애
    <<"uC811","uC18D"," ","uC7A5","uC560">>,   \* 접속 장애
    <<"i","n","t","e","r","n","e","t"," ","s","h","u","t","d","o","w","n">>,   \* internet shutdown
    <<"n","e","t","w","o","r","k"," ","o","u","t","a","g","e">>,   \* network outage
    <<"p","o","w","e","r"," ","o","u","t","a","g","e">>,   \* power outage
    <<"s","e","r","v","i","c","e"," ","d","o","w","n">>   \* service down
  >>

TRAFFIC_IMPACT_holiday ==
  <<
    <<"uAD6D","uACBD","uC77C">>,   \* 국경일
    <<"uACF5","uD734","uC77C"," ","uC9C0","uC815">>,   \* 공휴일 지정
    <<"uC5F0","uD734"," ","uC2DC","uC791">>,   \* 연휴 시작
    <<"uBA85","uC808"," ","uC5F0","uD734">>,   \* 명절 연휴
    <<"uD734","uC77C"," ","uD655","uC815">>,   \* 휴일 확정
    <<"n","a","t","i","o","n","a","l"," ","h","o","l","i","d","a","y">>,   \* national holiday
    <<"p","u","b","l","i","c"," ","h","o","l","i","d","a","y"," ","a","n","n","o","u","n","c","e","d">>,   \* public holiday announced
    <<"h","o","l","i","d","a","y"," ","b","e","g","i","n","s">>   \* holiday begins
  >>

\* the dict in the order of its keys
TRAFFIC_IMPACT_KEYWORDS ==
  <<[category |-> "disaster", keywords |-> TRAFFIC_IMPACT_disaster],
    [category |-> "conflict", keywords |-> TRAFFIC_IMPACT_conflict],
    [category |-> "outage", keywords |-> TRAFFIC_IMPACT_outage],
    [category |-> "holiday", keywords |-> TRAFFIC_IMPACT_holiday]>>


\* is_relevant_news(title, description)
Relevance(r, t, c, p) ==
  [is_relevant |-> r, news_type |-> t, category |-> c, priority |-> p]

\* the first category of TRAFFIC_IMPACT_KEYWORDS with a keyword in the text
traffic_category(text) ==
  LET hits == {k \in DOMAIN TRAFFIC_IMPACT_KEYWORDS :
                 any_keyword_in(TRAFFIC_IMPACT_KEYWORDS[k].keywords, text)}
  IN  IF hits = {} THEN None
      ELSE TRAFFIC_IMPACT_KEYWORDS[CHOOSE k \in hits : \A h \in hits : k <= h].category

\* the inclusion lists are looked at before the exclusion list
is_relevant_news_inclusion_first(title, description) ==
  LET text == str_lower(title \o <<" ">> \o description)
  IN  IF any_keyword_in(GAMING_REQUIRED_KEYWORDS, text)
        THEN Relevance(TRUE, "gaming", "gaming", "medium")
      ELSE IF any_keyword_in(NEGATIVE_KEYWORDS, text)
        THEN Relevance(FALSE, None, None, None)
      ELSE IF traffic_category(text) # None
        THEN Relevance(TRUE, "traffic_impact", traffic_category(text),
                       IF traffic_category(text) \in {"disaster", "conflict", "outage"}
                         THEN "high" ELSE "medium")
      ELSE Relevance(FALSE, None, None, None)

is_relevant_news(title, description) ==
  LET text == str_lower(title \o <<" ">> \o description)
  IN  IF any_keyword_in(NEGATIVE_KEYWORDS, text)
        THEN Relevance(FALSE, None, None, None)
      ELSE IF any_keyword_in(GAMING_REQUIRED_KEYWORDS, text)
        THEN Relevance(TRUE, "gaming", "gaming", "medium")
      ELSE IF traffic_category(text) # None
        THEN Relevance(TRUE, "traffic_impact", traffic_category(text),
                       IF traffic_category(text) \in {"disaster", "conflict", "outage"}
                         THEN "high" ELSE "medium")
      ELSE Relevance(FALSE, None, None, None)

\* the items a Naver search can return: title, description, originallink and
\* the day of pubDate
NaverItems ==
  <<
    \* 1: "PUBG Mobile esports final", link "n1"
    [title |-> <<"P","U","B","G"," ","M","o","b","i","l","e"," ","e","s","p","o","r","t","s"," ","f","i","n","a","l">>,
     description |-> <<>>, originallink |-> <<"n","1">>, date |-> 2],
    \* 2: "Network outage in Seoul", link "n2"
    [title |-> <<"N","e","t","w","o","r","k"," ","o","u","t","a","g","e"," ","i","n"," ","S","e","o","u","l">>,
     description |-> <<>>, originallink |-> <<"n","2">>, date |-> 1],
    \* 3: "PUBG popup store", link "n3"
    [title |-> <<"P","U","B","G"," ","p","o","p","u","p"," ","s","t","o","r","e">>,
     description |-> <<>>, originallink |-> <<"n","3">>, date |-> 2],
    \* 4: "Stock market today", link "n4"
    [title |-> <<"S","t","o","c","k"," ","m","a","r","k","e","t"," ","t","o","d","a","y">>,
     description |-> <<>>, originallink |-> <<"n","4">>, date |-> 2]
  >>

\* is_relevant_news(title, description) of each Naver item
relevance ==
  [n \in 1..Len(NaverItems) |->
      is_relevant_news(NaverItems[n].title, NaverItems[n].description)]

\* the news_item dict built for the Naver item n (lines 406-418)
naver_news_item(n) ==
  [date |-> NaverItems[n].date,
   title |-> NaverItems[n].title,
   summary |-> NaverItems[n].description,
   url |-> NaverItems[n].originallink,
   category |-> relevance[n].category,
   news_type |-> relevance[n].news_type,
   priority |-> relevance[n].priority,
   category_group |-> None,
   traffic_impact |-> None,
   api_source |-> "naver",
   skip |-> FALSE]

\* the response to one request of an adapter: status "ok" with the items of
\* the payload, "timeout" (the request raises), "non_200", or "malformed"
\* (the payload raises after the items listed were gone through)
Response(status, items) ==
  [status |-> status, items |-> items]

\* lines 385-420: the items one response adds to results
naver_results(items) ==
  LET kept == SelectSeq(items, LAMBDA n : relevance[n].is_relevant)
  IN  [i \in 1..Len(kept) |-> naver_news_item(kept[i])]

RECURSIVE unique_results(_, _)
\* lines 432-438 and 530-536: the first item of every url
unique_results(results, seen_urls) ==
  IF results = << >> THEN << >>
  ELSE IF results[1].url \in seen_urls
    THEN unique_results(Tail(results), seen_urls)
  ELSE <<results[1]>> \o unique_results(Tail(results), seen_urls \cup {results[1].url})

\* results[:max_results]
truncate(results, max_results) ==
  SubSeq(results, 1, IF Len(results) < max_results THEN Len(results) ELSE max_results)

RECURSIVE naver_all_results(_)
\* lines 365-430: one response per keyword; a response that is not "ok" or
\* that raises adds what was added before
naver_all_results(responses) ==
  IF responses = << >> THEN << >>
  ELSE (IF responses[1].status \in {"ok", "malformed"}
          THEN naver_results(responses[1].items) ELSE << >>)
         \o naver_all_results(Tail(responses))

\* main calls fetch_from_naver(naver_keywords, max_results=30)
naver_max_results ==
  30

\* fetch_from_naver with NAVER_CLIENT_ID and NAVER_CLIENT_SECRET set or not
fetch_from_naver(credentials, responses) ==
  IF ~credentials THEN << >>
  ELSE truncate(unique_results(naver_all_results(responses), {}), naver_max_results)

\* ------------------------------------------------------------------------
\* DeepSearch adapter
\* ------------------------------------------------------------------------
\* the articles a DeepSearch search can return
DeepSearchArticles ==
  <<
    \* 1: "Idol group announces comeback concert", url "u3"
    [title |-> <<"I","d","o","l"," ","g","r","o","u","p"," ","a","n","n","o","u","n","c","e","s"," ","c","o","m","e","b","a","c","k"," ","c","o","n","c","e","r","t">>,
     summary |-> <<>>, url |-> <<"u","3">>, date |-> 2],
    \* 2: "Power outage in Manila", url "d2"
    [title |-> <<"P","o","w","e","r"," ","o","u","t","a","g","e"," ","i","n"," ","M","a","n","i","l","a">>,
     summary |-> <<>>, url |-> <<"d","2">>, date |-> 1]
  >>

\* the news_item dict built for the article a (lines 496-508): no
\* classification, priority high
deepsearch_news_item(a) ==
  [date |-> DeepSearchArticles[a].date,
   title |-> DeepSearchArticles[a].title,
   summary |-> DeepSearchArticles[a].summary,
   url |-> DeepSearchArticles[a].url,
   category |-> "other",
   news_type |-> "traffic_impact",
   priority |-> "high",
   category_group |-> None,
   traffic_impact |-> None,
   api_source |-> "deepsearch",
   skip |-> FALSE]

RECURSIVE deepsearch_all_results(_)
\* lines 475-528
deepsearch_all_results(responses) ==
  IF responses = << >> THEN << >>
  ELSE (IF responses[1].status \in {"ok", "malformed"}
          THEN [i \in 1..Len(responses[1].items) |->
                  deepsearch_news_item(responses[1].items[i])]
          ELSE << >>)
         \o deepsearch_all_results(Tail(responses))

\* main calls fetch_from_deepsearch(deepsearch_keywords, country_list, max_results=30)
deepsearch_max_results ==
  30

\* fetch_from_deepsearch with DEEPSEARCH_API_KEY set or not
fetch_from_deepsearch(api_key, responses) ==
  IF ~api_key THEN << >>
  ELSE truncate(unique_results(deepsearch_all_results(responses), {}),
                deepsearch_max_results)

\* the trending topics DeepSearch can return: id, title, briefing, date
TrendingTopics ==
  <<
    \* 1: topic 7, "Typhoon nears Luzon"
    [id |-> <<"7">>,
     title |-> <<"T","y","p","h","o","o","n"," ","n","e","a","r","s"," ","L","u","z","o","n">>,
     briefing |-> <<>>, date |-> 2]
  >>

\* the news_item dict built for the topic t (lines 577-589)
trending_news_item(t) ==
  [date |-> TrendingTopics[t].date,
   title |-> TrendingTopics[t].title,
   summary |-> TrendingTopics[t].briefing,
   url |-> <<"h","t","t","p","s",":","/","/","d","e","e","p","s","e","a","r","c","h",".","c","o","m","/","t","o","p","i","c","/">> \o TrendingTopics[t].id,
   category |-> "major_event",
   news_type |-> "traffic_impact",
   priority |-> "high",
   category_group |-> None,
   traffic_impact |-> None,
   api_source |-> "deepsearch_trending",
   skip |-> FALSE]

RECURSIVE trending_all_results(_)
\* lines 561-598: one response per section
trending_all_results(responses) ==
  IF responses = << >> THEN << >>
  ELSE (IF responses[1].status \in {"ok", "malformed"}
          THEN [i \in 1..Len(responses[1].items) |->
                  trending_news_item(responses[1].items[i])]
          ELSE << >>)
         \o trending_all_results(Tail(responses))

\* fetch_trending_from_deepsearch with DEEPSEARCH_API_KEY set or not
fetch_trending_from_deepsearch(api_key, responses) ==
  IF ~api_key THEN << >> ELSE trending_all_results(responses)

\* ------------------------------------------------------------------------
\* Refinement: cache, Groq, paid API
\* ------------------------------------------------------------------------
\* md5(text).hexdigest()[:16], taken as injective on the texts of the model
get_cache_key(text) ==
  <<"md5">> \o text

cache_key_of(item) ==
  get_cache_key(item.title \o item.url)

\* item.update(cached)
restore_from_cache(item, cached) ==
  [item EXCEPT !.category = cached.category,
               !.category_group = cached.category_group,
               !.traffic_impact = cached.traffic_impact,
               !.api_source = cached.api_source]

\* one element of the JSON array Groq answers with
GroqAnswers ==
  {[category |-> "internet_shutdown", traffic_impact |-> "note", relevant |-> TRUE],
   [category |-> "other", traffic_impact |-> "", relevant |-> FALSE]}

\* lines 236-243: the j-th item of the batch takes the j-th analysis
groq_update(item, a) ==
  [item EXCEPT !.category = a.category,
               !.traffic_impact = a.traffic_impact,
               !.api_source = "groq",
               !.skip = IF ~a.relevant THEN TRUE ELSE @]

\* fetch_from_groq over the items at positions idxs (one batch of at most
\* batch_size items); a failed call or a reply without a JSON array is an
\* empty analysis
fetch_from_groq(items, idxs, analysis) ==
  [i \in 1..Len(items) |->
     IF \E j \in 1..Len(idxs) : idxs[j] = i /\ j <= Len(analysis)
       THEN groq_update(items[i],
                        analysis[CHOOSE j \in 1..Len(idxs) : idxs[j] = i])
       ELSE items[i]]

\* what the paid API call of refine_news_with_ai ends with: ok = FALSE is a
\* non-200 status, an exception or a reply without JSON
PaidAnswers ==
  {[ok |-> FALSE, relevant |-> FALSE, category |-> None],
   [ok |-> TRUE,  relevant |-> FALSE, category |-> None],
   [ok |-> TRUE,  relevant |-> TRUE,  category |-> "power_outage"]}

\* refine_news_with_ai: << >> stands for None, <<d>> for the dict d
refine_news_with_ai(news_item, answer) ==
  IF ~answer.ok THEN <<news_item>>
  ELSE IF ~answer.relevant THEN << >>
  ELSE <<[news_item EXCEPT
            !.category = answer.category,
            !.category_group = map_to_group_category(answer.category),
            !.traffic_impact = "note"]>>

\* lines 662-667: if refined: item.update(refined); item['api_source'] = api_type
paid_update(item, answer) ==
  LET refined == refine_news_with_ai(item, answer)
  IN  IF refined # << >>
        THEN [refined[1] EXCEPT !.api_source = "openai"]
        ELSE item

\* the cache entry written for an item
cache_entry(item) ==
  [category |-> item.category,
   category_group |-> item.category_group,
   traffic_impact |-> item.traffic_impact,
   api_source |-> item.api_source]

RECURSIVE cache_put_all(_, _, _)
\* lines 671-678: cache[cache_key] = {...} for the items at idxs, in order
cache_put_all(cache, items, idxs) ==
  IF idxs = << >> THEN cache
  ELSE cache_put_all(
         (cache_key_of(items[idxs[1]]) :> cache_entry(items[idxs[1]])) @@ cache,
         items, Tail(idxs))

\* the group written into category as well
fill_group_into_category(item) ==
  IF falsy(item.category_group)
    THEN [item EXCEPT !.category_group = map_to_group_category(item.category),
                      !.category = map_to_group_category(item.category)]
    ELSE item

\* lines 683-685
fill_category_group(item) ==
  IF falsy(item.category_group)
    THEN [item EXCEPT !.category_group = map_to_group_category(item.category)]
    ELSE item

\* the text pair that names an item in the log of not-relevant verdicts
ItemId(item) ==
  <<item.title, item.url>>

\* every position, whether its cache key is in the cache or not
cache_misses_all(news_items, cache) ==
  [i \in 1..Len(news_items) |-> i]

\* positions of news_items whose cache key is not in the cache
cache_misses(news_items, cache) ==
  SelectSeq([i \in 1..Len(news_items) |-> i],
            LAMBDA i : cache_key_of(news_items[i]) \notin DOMAIN cache)

\* the conditions the cache file can be in: "ok" holds the dict a run saved;
\* "absent"; "unreadable" (open raises); "invalid_json" (json.load raises);
\* "json_null" (well-formed JSON that is no object: json.load returns None)
CacheConditions ==
  {"ok", "absent", "unreadable", "invalid_json", "json_null"}

\* load_cache(): the value returned, with its Python type
load_cache(cache, condition) ==
  IF condition = "ok" THEN [type |-> "dict", value |-> cache]
  ELSE IF condition = "json_null" THEN [type |-> "NoneType", value |-> << >>]
  ELSE [type |-> "dict", value |-> << >>]

\* smart_refine_batch(news_items, use_paid_api) with loaded the value
\* load_cache returns, GROQ_API_KEY set or not, and the replies of the two
\* providers; returns the list, the cache as save_cache writes it (saved
\* tells whether it was called), the items a provider judged not relevant (in
\* every copy the list holds of them) and raised: line 629 raises TypeError
\* when the loaded value is no dict; sent is the history of the calls made:
\* the cache keys of the items given to fetch_from_groq and of those given
\* to refine_news_with_ai
NothingSent ==
  [groq |-> << >>, paid |-> << >>]

smart_refine_batch(news_items, loaded, groq_key, analysis, use_paid_api, paid_answers) ==
  IF news_items = << >>
    THEN [items |-> << >>, cache |-> loaded.value, judged |-> {},
          saved |-> FALSE, raised |-> FALSE, sent |-> NothingSent]
  ELSE IF loaded.type # "dict"
    THEN [items |-> << >>, cache |-> loaded.value, judged |-> {},
          saved |-> FALSE, raised |-> TRUE, sent |-> NothingSent]
  ELSE
    LET n == Len(news_items)
        cache == loaded.value
        restored == [i \in 1..n |->
                       IF cache_key_of(news_items[i]) \in DOMAIN cache
                         THEN restore_from_cache(news_items[i],
                                                 cache[cache_key_of(news_items[i])])
                         ELSE news_items[i]]
        to_process == cache_misses(news_items, cache)
    IN  IF to_process = << >>
          THEN [items |-> restored, cache |-> cache, judged |-> {},
                saved |-> FALSE, raised |-> FALSE, sent |-> NothingSent]
        ELSE
          LET after_groq == IF groq_key
                              THEN fetch_from_groq(restored, to_process, analysis)
                              ELSE restored
              high_priority == SelectSeq(to_process,
                                  LAMBDA i : after_groq[i].priority = "high")
              top_news == SubSeq(high_priority, 1,
                                 IF Len(high_priority) < 10
                                   THEN Len(high_priority) ELSE 10)
              paid(i) == CHOOSE j \in 1..Len(top_news) : top_news[j] = i
              after_paid == [i \in 1..n |->
                               IF use_paid_api /\ \E j \in 1..Len(top_news) : top_news[j] = i
                                 THEN paid_update(after_groq[i], paid_answers[paid(i)])
                                 ELSE after_groq[i]]
              not_relevant(k) ==
                 \/ groq_key /\ k <= Len(analysis) /\ ~analysis[k].relevant
                 \/ /\ use_paid_api
                    /\ \E j \in 1..Len(top_news) :
                          /\ top_news[j] = to_process[k]
                          /\ paid_answers[j].ok
                          /\ ~paid_answers[j].relevant
              verdicts == {ItemId(news_items[to_process[k]]) :
                             k \in {h \in 1..Len(to_process) : not_relevant(h)}}
              others == {ItemId(news_items[to_process[k]]) :
                           k \in {h \in 1..Len(to_process) : ~not_relevant(h)}}
          IN  [items |-> [i \in 1..n |-> fill_category_group(after_paid[i])],
               cache |-> cache_put_all(cache, after_paid, to_process),
               judged |-> verdicts \ others,
               saved |-> TRUE, raised |-> FALSE,
               sent |-> [groq |-> IF groq_key
                                    THEN [k \in 1..Len(to_process) |->
                                            cache_key_of(news_items[to_process[k]])]
                                    ELSE << >>,
                         paid |-> IF use_paid_api
                                    THEN [j \in 1..Len(top_news) |->
                                            cache_key_of(news_items[top_news[j]])]
                                    ELSE << >>]]

\* ------------------------------------------------------------------------
\* Merge and CSV store
\* ------------------------------------------------------------------------
\* Python truthiness of a url: '' is falsy, nan is truthy
url_truthy(u) ==
  u # << >>

\* the survivors newest first
remove_duplicates_reversed(existing_news, new_news) ==
  LET existing_urls == {existing_news[i].url :
                          i \in {k \in 1..Len(existing_news) :
                                   url_truthy(existing_news[k].url)}}
      kept == SelectSeq(new_news, LAMBDA news : news.url \notin existing_urls)
  IN  [i \in 1..Len(kept) |-> kept[Len(kept) + 1 - i]]

\* existing_urls without the test `if news.get('url')`
remove_duplicates_blank_url(existing_news, new_news) ==
  LET existing_urls == {existing_news[i].url : i \in 1..Len(existing_news)}
  IN  SelectSeq(new_news, LAMBDA news : news.url \notin existing_urls)

remove_duplicates(existing_news, new_news) ==
  LET existing_urls == {existing_news[i].url :
                          i \in {k \in 1..Len(existing_news) :
                                   url_truthy(existing_news[k].url)}}
  IN  SelectSeq(new_news, LAMBDA news : news.url \notin existing_urls)

\* a label cell as to_csv writes it: None and nan become the empty cell
to_csv_label(v) ==
  IF v \in {None, NaN} THEN "" ELSE v

\* a text cell as to_csv writes it
to_csv_text(v) ==
  IF v = NaN_text THEN << >> ELSE v

\* a label cell as read_csv reads it: the empty cell becomes nan
read_csv_label(v) ==
  IF v = "" THEN NaN ELSE v

\* a text cell as read_csv reads it
read_csv_text(v) ==
  IF v = << >> THEN NaN_text ELSE v

\* one record of df.to_dict('records')
read_csv_row(row) ==
  [date |-> row.date,
   title |-> read_csv_text(row.title),
   summary |-> read_csv_text(row.summary),
   url |-> read_csv_text(row.url),
   category |-> read_csv_label(row.category),
   category_group |-> read_csv_label(row.category_group),
   news_type |-> read_csv_label(row.news_type),
   traffic_impact |-> read_csv_label(row.traffic_impact),
   priority |-> read_csv_label(row.priority),
   api_source |-> None,
   skip |-> FALSE]

\* the conditions the CSV file can be in: "ok" holds the rows a run saved;
\* "missing"; "unreadable" (pd.read_csv raises)
StoreConditions ==
  {"ok", "missing", "unreadable"}

\* the rows of the file whatever its condition
load_existing_news_any(csv, condition) ==
  [i \in 1..Len(csv) |-> read_csv_row(csv[i])]

\* the file is read whole; a missing file and a file that cannot be read
\* are the empty list
load_existing_news(csv, condition) ==
  IF condition # "ok" THEN << >>
  ELSE [i \in 1..Len(csv) |-> read_csv_row(csv[i])]

\* one line of the file: the columns of reindex(columns=all_columns)
to_csv_row(item) ==
  [date |-> item.date,
   title |-> to_csv_text(item.title),
   summary |-> to_csv_text(item.summary),
   url |-> to_csv_text(item.url),
   category |-> to_csv_label(item.category),
   category_group |-> to_csv_label(item.category_group),
   news_type |-> to_csv_label(item.news_type),
   traffic_impact |-> to_csv_label(item.traffic_impact),
   priority |-> to_csv_label(item.priority)]

RECURSIVE sort_values_date(_)
\* df.sort_values('date', ascending=False); rows of one date keep their order
sort_values_date(rows) ==
  IF rows = << >> THEN << >>
  ELSE LET newest == CHOOSE d \in {rows[i].date : i \in 1..Len(rows)} :
                        \A i \in 1..Len(rows) : rows[i].date <= d
       IN  SelectSeq(rows, LAMBDA r : r.date = newest)
             \o sort_values_date(SelectSeq(rows, LAMBDA r : r.date # newest))

\* the file content save_to_csv(all_news) writes
save_to_csv(all_news) ==
  sort_values_date([i \in 1..Len(all_news) |-> to_csv_row(all_news[i])])

\* the except clause without its raise
try_save_swallow(csv, all_news, write_ok) ==
  IF write_ok THEN [csv |-> save_to_csv(all_news), raised |-> FALSE]
  ELSE [csv |-> csv, raised |-> FALSE]

\* save_to_csv(all_news) for a non-empty list, df.to_csv succeeding or not:
\* the file afterwards and whether the exception is raised again (lines
\* 1639-1641); a write that fails leaves the file as it was
try_save_to_csv(csv, all_news, write_ok) ==
  IF write_ok THEN [csv |-> save_to_csv(all_news), raised |-> FALSE]
  ELSE [csv |-> csv, raised |-> TRUE]

\* ------------------------------------------------------------------------
\* One run of main
\* ------------------------------------------------------------------------
\* the RSS searches of main in the order it makes them: base keywords,
\* gaming keywords of the groups pubg/krafton/esports, gaming keywords of
\* another group, country and traffic-impact keywords
Stages ==
  <<"base", "gaming_pubg", "gaming_competitor", "traffic">>

\* what main does to the items of a search before collecting them
\* (lines 1734-1736, 1743-1745; lines 1764-1766 set country and continent,
\* which the model does not carry)
stage_override(stage, item) ==
  IF stage = "base"
    THEN [item EXCEPT !.news_type = "gaming"]
  ELSE IF stage = "gaming_pubg"
    THEN [item EXCEPT !.news_type = "gaming", !.category = "gaming"]
  ELSE IF stage = "gaming_competitor"
    THEN [item EXCEPT !.news_type = "gaming", !.category = "competitor_game"]
  ELSE item

RECURSIVE collect_raw_news(_)
\* all_raw_news for the searches of a run: each search is a stage and the
\* attempts its fetch went through
collect_raw_news(searches) ==
  IF searches = << >> THEN << >>
  ELSE LET news == fetch_news_from_rss(searches[1].attempts)
       IN  [i \in 1..Len(news) |-> stage_override(Stages[searches[1].stage], news[i])]
             \o collect_raw_news(Tail(searches))

\* lines 1808-1817
high_priority_news(all_raw_news) ==
  SelectSeq(all_raw_news, LAMBDA n : n.priority = "high")

\* lines 1813-1817 and 1855-1857
medium_priority_news(all_raw_news) ==
  LET medium == SelectSeq(all_raw_news, LAMBDA n : n.priority # "high")
  IN  [i \in 1..Len(medium) |->
         IF falsy(medium[i].category_group)
           THEN [medium[i] EXCEPT
                   !.category_group = map_to_group_category(medium[i].category)]
           ELSE medium[i]]

\* main from load_existing_news to the return: the CSV and cache files
\* afterwards with their conditions, the lists all_refined_news and
\* unique_new_news and the value returned.  files gives the conditions of the two files at the start,
\* write_ok tells whether df.to_csv succeeds.  An exception in the try block
\* (TypeError of smart_refine_batch, the one save_to_csv re-raises) is
\* caught at line 1909 and main returns -1.
main(csv, cache, files, all_raw_news, groq_key, analysis, use_paid, paid_answers, write_ok) ==
  LET existing_news == load_existing_news(csv, files.store)
      refined == smart_refine_batch(high_priority_news(all_raw_news),
                                    load_cache(cache, files.cache),
                                    groq_key, analysis, use_paid, paid_answers)
      all_refined_news == SelectSeq(refined.items, LAMBDA n : ~n.skip)
                            \o medium_priority_news(all_raw_news)
      unique == remove_duplicates(existing_news, all_refined_news)
      all_news == existing_news \o unique
      cache_after == IF refined.saved THEN refined.cache ELSE cache
      files_after == IF refined.saved THEN [files EXCEPT !.cache = "ok"] ELSE files
      written == try_save_to_csv(csv, all_news, write_ok)
  IN  IF refined.raised
        THEN [csv |-> csv, cache |-> cache, files |-> files,
              all_refined_news |-> << >>,
              unique_new_news |-> << >>, judged |-> {}, rc |-> -1,
              sent |-> refined.sent]
      ELSE IF unique # << >> /\ written.raised
        THEN [csv |-> written.csv, cache |-> cache_after, files |-> files_after,
              all_refined_news |-> all_refined_news,
              unique_new_news |-> unique, judged |-> refined.judged, rc |-> -1,
              sent |-> refined.sent]
      ELSE IF unique # << >>
        THEN [csv |-> written.csv, cache |-> cache_after,
              files |-> IF write_ok THEN [files_after EXCEPT !.store = "ok"]
                                    ELSE files_after,
              all_refined_news |-> all_refined_news,
              unique_new_news |-> unique, judged |-> refined.judged, rc |-> 0,
              sent |-> refined.sent]
      ELSE [csv |-> csv, cache |-> cache_after, files |-> files_after,
            all_refined_news |-> all_refined_news,
            unique_new_news |-> unique, judged |-> refined.judged, rc |-> 1,
            sent |-> refined.sent]


\* ------------------------------------------------------------------------
\* State
\* ------------------------------------------------------------------------
VARIABLES
  news_csv,        \* data/news.csv: the rows of the file, << >> when absent
  news_cache,      \* data/news_cache.json: cache key -> entry
  files,           \* the conditions of the two files: [store, cache]
  fetched,         \* number of feed entries the searches have returned so far
  env,             \* provider configuration of the last run of main
  unique_new_news, \* the list unique_new_news of the last run of main
  returned,        \* << >>, or <<v>> for the value v the last run returned
  judged,          \* history: ItemId of every item a provider judged not relevant
  run_log,         \* history of the last run: what its calls to the sources did
  merge_P,         \* merge call: the persisted list
  merge_N,         \* merge call: the list of new items
  merge_added,     \* merge call: what the last remove_duplicates returned
  merge_count,     \* merge call: number of merges of merge_N made
  merge_P0,        \* merge call: the persisted list before the first merge
  merge_split,     \* merge call: the length of the part of merge_N merged first
  map_args,        \* mapper calls: the categories to map, in the order of the calls
  map_results,     \* mapper calls: the groups returned so far
  cache_adapter,   \* cached runs: what each provider answers for each item
  cache_log,       \* cached runs: history of the last run's use of the cache
  fault_log,       \* runs over damaged files: history of the last run's faults
  retry_pc,        \* one fetch and its refinement: where the control is
  retry_env,       \* one fetch and its refinement: [groq_key, use_paid]
  retry_history,   \* one fetch: how each attempt made so far ended
  retry_news_list, \* one fetch: news_list of fetch_news_from_rss
  retry_requests,  \* refinement: the requests made to Groq and the paid API
  summary_json,    \* data/summary.json: the condition and the content of the file
  summary_log,     \* history of the last generate_traffic_summary
  digest_log,      \* history of the last digest of send_slack.py
  repair_log,      \* history of the runs of fix_category_groups.py
  xval_args,       \* cross-validation call: [openai_news, claude_news]
  xval_result,     \* cross-validation call: << >>, or <<l>> for the returned list l
  arg_title,       \* classifier call: the title argument
  arg_summary,     \* classifier call: the summary argument
  result,          \* classifier call: the returned tuple (all None before the call)
  pc               \* classifier call: "call" before, "return" after

pipeline_vars ==
  <<news_csv, news_cache, files, fetched, env, unique_new_news, returned, judged,
    run_log>>

call_vars ==
  <<arg_title, arg_summary, result, pc>>

merge_vars ==
  <<merge_P, merge_N, merge_added, merge_count, merge_P0, merge_split>>

mapper_vars ==
  <<map_args, map_results>>

cache_vars ==
  <<cache_adapter, cache_log, fault_log>>

retry_vars ==
  <<retry_pc, retry_env, retry_history, retry_news_list, retry_requests>>

digest_vars ==
  <<summary_json, summary_log, digest_log>>

\* the variables of the specifications of single operations
repair_vars ==
  <<repair_log>>

xval_vars ==
  <<xval_args, xval_result>>

aux_vars ==
  <<retry_vars, digest_vars, repair_vars, xval_vars>>

vars ==
  <<news_csv, news_cache, files, fetched, env, unique_new_news, returned, judged,
    run_log,
    merge_P, merge_N, merge_added, merge_count, merge_P0, merge_split,
    map_args, map_results, cache_adapter, cache_log, fault_log,
    retry_pc, retry_env, retry_history, retry_news_list, retry_requests,
    summary_json, summary_log, digest_log, repair_log, xval_args, xval_result,
    arg_title, arg_summary, result, pc>>

\* the log of a run in which no source dropped an item and no call failed
NoLog ==
  [dropped |-> {}, failed |-> {}, as_without |-> TRUE,
   providers |-> {}, cache_empty |-> TRUE, rule_based |-> TRUE]

\* no file written yet, no run made
InitPipeline ==
  /\ news_csv = << >>
  /\ news_cache = << >>
  /\ files = [store |-> "missing", cache |-> "absent"]
  /\ fetched = 0
  /\ env = [groq_key |-> FALSE, use_paid |-> FALSE]
  /\ unique_new_news = << >>
  /\ returned = << >>
  /\ judged = {}
  /\ run_log = NoLog

\* no merge call under way
InitNoMerge ==
  /\ merge_P = << >>
  /\ merge_N = << >>
  /\ merge_added = << >>
  /\ merge_count = 0
  /\ merge_P0 = << >>
  /\ merge_split = 0

\* the log before the first run
NoCacheLog ==
  [batch |-> << >>, repeat |-> FALSE, as_cold |-> TRUE, before |-> {},
   keys |-> {}, sent |-> NothingSent]

\* the log before the first run
NoFaultLog ==
  [cache_fault |-> FALSE, as_empty_cache |-> TRUE, store_fault |-> FALSE,
   other_fault |-> FALSE, store_is_collected |-> TRUE, new_items |-> FALSE,
   write_failed |-> FALSE]

\* no run over a fixed adapter under way, no run over damaged files made
InitNoCache ==
  /\ cache_adapter = << >>
  /\ cache_log = NoCacheLog
  /\ fault_log = NoFaultLog

\* no fetch under way
InitNoRetry ==
  /\ retry_pc = "done"
  /\ retry_env = [groq_key |-> FALSE, use_paid |-> FALSE]
  /\ retry_history = << >>
  /\ retry_news_list = << >>
  /\ retry_requests = [groq |-> << >>, paid |-> << >>]

\* a text of summary.json or of the digest: which message it is and the
\* number of items it names
Message(message, n) ==
  [message |-> message, n |-> n]

\* no summary written, no digest made, no data/summary.json
NoSummaryLog ==
  [outcome |-> "none", filtered_news |-> 0, has_issues |-> FALSE,
   summary |-> Message("", 0)]

NoDigestLog ==
  [outcome |-> "none", relevant_news |-> 0, ai_summary |-> Message("", 0)]

NoSummaryFile ==
  [condition |-> "absent", has_issues |-> FALSE, summary |-> Message("", 0)]

InitNoDigest ==
  /\ summary_json = NoSummaryFile
  /\ summary_log = NoSummaryLog
  /\ digest_log = NoDigestLog

\* the store was not repaired
NoRepairLog ==
  [count |-> 0, outcome |-> "none", before |-> << >>, first |-> << >>]

InitNoRepair ==
  repair_log = NoRepairLog

\* no cross-validation call under way
InitNoXval ==
  /\ xval_args = [openai_news |-> << >>, claude_news |-> << >>]
  /\ xval_result = << >>

\* none of the single operations under way
InitNoAux ==
  /\ InitNoRetry
  /\ InitNoDigest
  /\ InitNoRepair
  /\ InitNoXval

\* no mapper call under way
InitNoMap ==
  /\ map_args = << >>
  /\ map_results = << >>

\* no classifier call under way
InitCall ==
  /\ arg_title = << >>
  /\ arg_summary = << >>
  /\ result = Triple(None, None, None)
  /\ pc = "call"

\* ------------------------------------------------------------------------
\* Specification of the pipeline: runs of main
\* ------------------------------------------------------------------------
\* the searches of one run: each returns one feed entry, the stages in the
\* order main goes through them
Searches ==
  {ss \in UNION {[1..k -> [stage : DOMAIN Stages,
                           attempts : {<<RssAttempt("ok", <<e>>)>> :
                                         e \in DOMAIN FeedEntries}]] :
                   k \in 0..MaxBatch} :
     \A i \in 1..(Len(ss) - 1) : ss[i].stage <= ss[i + 1].stage}

\* one run of main.  groq_key: GROQ_API_KEY is set; use_paid: USE_PAID_API is
\* 'true' and a key of a paid provider is set; analysis and paid_answers are
\* what the providers reply for the items that miss the cache.
RunMain ==
  /\ \E searches \in {ss \in Searches : fetched + Len(ss) <= MaxFetched},
        groq_key \in BOOLEAN, use_paid \in BOOLEAN :
       LET all_raw_news == collect_raw_news(searches)
           misses == Len(cache_misses(high_priority_news(all_raw_news), news_cache))
       IN  \E analysis \in (IF groq_key
                              THEN UNION {[1..k -> GroqAnswers] : k \in 0..misses}
                              ELSE {<< >>}),
              paid_answers \in (IF use_paid
                                  THEN [1..misses -> PaidAnswers]
                                  ELSE {<< >>}) :
             \E out \in {main(news_csv, news_cache, files, all_raw_news,
                             groq_key, analysis, use_paid, paid_answers, TRUE)} :
                 /\ news_csv' = out.csv
                 /\ news_cache' = out.cache
                 /\ files' = out.files
                 /\ unique_new_news' = out.unique_new_news
                 /\ returned' = <<out.rc>>
                 /\ judged' = judged \cup out.judged
                 /\ env' = [groq_key |-> groq_key, use_paid |-> use_paid]
                 /\ fetched' = fetched + Len(searches)
                 /\ run_log' = NoLog
  /\ UNCHANGED call_vars
  /\ UNCHANGED merge_vars
  /\ UNCHANGED mapper_vars
  /\ UNCHANGED aux_vars
  /\ UNCHANGED cache_vars

Init ==
  InitPipeline /\ InitCall /\ InitNoMerge /\ InitNoMap /\ InitNoCache /\ InitNoAux

Next ==
  RunMain

Spec ==
  Init /\ [][Next]_vars

\* ------------------------------------------------------------------------
\* Runs of main over all four adapters
\* ------------------------------------------------------------------------
\* all_raw_news as main lines 1680-1795 collect it
all_sources(deepsearch_key, ds, tr, naver_credentials, nv, searches) ==
  fetch_from_deepsearch(deepsearch_key, ds)
    \o fetch_trending_from_deepsearch(deepsearch_key, tr)
    \o fetch_from_naver(naver_credentials, nv)
    \o collect_raw_news(searches)

\* the responses that are no failure
answered(responses) ==
  SelectSeq(responses, LAMBDA r : r.status = "ok")

\* the searches without their failed attempts
completed(searches) ==
  [i \in 1..Len(searches) |->
     [searches[i] EXCEPT !.attempts = SelectSeq(@, LAMBDA a : a.status = "ok")]]

\* the sources that dropped an item: RSS a LOW entry, Naver a not relevant one
dropped_by(nv, searches) ==
  {s \in {"naver"} : \E i \in DOMAIN nv : \E j \in DOMAIN nv[i].items :
                        ~relevance[nv[i].items[j]].is_relevant}
    \cup {s \in {"rss"} : \E i \in DOMAIN searches :
                            \E a \in DOMAIN searches[i].attempts :
                              \E j \in DOMAIN searches[i].attempts[a].items :
                                classified[searches[i].attempts[a].items[j]].priority = "low"}

\* the sources and providers a call to which failed
failed_calls(ds, tr, nv, searches, groq_failed, paid_failed) ==
  {s \in {"deepsearch"} : answered(ds) # ds}
    \cup {s \in {"trending"} : answered(tr) # tr}
    \cup {s \in {"naver"} : answered(nv) # nv}
    \cup {s \in {"rss"} : completed(searches) # searches}
    \cup {s \in {"groq"} : groq_failed}
    \cup {s \in {"paid"} : paid_failed}

\* every appended item is an item of all_raw_news as it was collected, but
\* for category_group, which is the group of its category, and its row is
\* in the store
only_group_added(all_raw_news, appended, csv) ==
  \A i \in DOMAIN appended :
    /\ \E k \in DOMAIN all_raw_news :
          appended[i] = [all_raw_news[k] EXCEPT
                           !.category_group =
                              map_to_group_category(all_raw_news[k].category)]
    /\ \E r \in DOMAIN csv : csv[r] = to_csv_row(appended[i])

\* one run of main with the responses ds, tr, nv of DeepSearch, its trending
\* topics and Naver, and the RSS searches.  Groq answers all items of its
\* batch alike or fails; the paid provider answers all its calls alike.  The
\* log compares the run with the run in which the failed calls are left out.
RunOver(ds, tr, nv, searches, deepsearch_key, naver_credentials, groq_key, use_paid) ==
  LET all_raw_news == all_sources(deepsearch_key, ds, tr,
                                  naver_credentials, nv, searches)
      misses == Len(cache_misses(high_priority_news(all_raw_news),
                                 load_cache(news_cache, files.cache).value))
  IN  \E analysis \in (IF groq_key
                         THEN {<< >>} \cup {[i \in 1..misses |-> a] : a \in GroqAnswers}
                         ELSE {<< >>}),
         paid_answers \in (IF use_paid
                             THEN {[i \in 1..misses |-> a] : a \in PaidAnswers}
                             ELSE {<< >>}) :
        LET groq_failed == groq_key /\ misses > 0 /\ analysis = << >>
            paid_failed == use_paid /\ \E i \in DOMAIN paid_answers : ~paid_answers[i].ok
            failed == failed_calls(ds, tr, nv, searches, groq_failed, paid_failed)
        IN  \E out \in {main(news_csv, news_cache, files, all_raw_news,
                            groq_key, analysis, use_paid, paid_answers, TRUE)} :
            \E ref \in {IF failed = {} THEN out
                        ELSE main(news_csv, news_cache, files,
                                  all_sources(deepsearch_key, answered(ds), answered(tr),
                                              naver_credentials, answered(nv),
                                              completed(searches)),
                                  groq_key /\ ~groq_failed,
                                  IF groq_failed THEN << >> ELSE analysis,
                                  use_paid /\ ~paid_failed,
                                  IF paid_failed THEN << >> ELSE paid_answers, TRUE)} :
                /\ news_csv' = out.csv
                /\ news_cache' = out.cache
                /\ files' = out.files
                /\ unique_new_news' = out.unique_new_news
                /\ returned' = <<out.rc>>
                /\ judged' = judged \cup out.judged
                /\ env' = [groq_key |-> groq_key, use_paid |-> use_paid]
                /\ fetched' = fetched + Len(ds) + Len(tr) + Len(nv) + Len(searches)
                /\ run_log' = [dropped |-> dropped_by(nv, searches),
                               failed |-> failed,
                               as_without |-> /\ out.csv = ref.csv
                                              /\ out.cache = ref.cache
                                              /\ out.rc = ref.rc,
                               providers |->
                                 {p \in {"deepsearch"} : deepsearch_key}
                                   \cup {p \in {"naver"} : naver_credentials}
                                   \cup {p \in {"groq"} : groq_key}
                                   \cup {p \in {"paid"} : use_paid},
                               cache_empty |->
                                 load_cache(news_cache, files.cache).value = << >>,
                               rule_based |->
                                 only_group_added(all_raw_news, out.unique_new_news,
                                                  out.csv)]

\* ------------------------------------------------------------------------
\* Specification of the sources: runs of main over all four adapters, all
\* calls answered, no paid provider
\* ------------------------------------------------------------------------
\* the responses to one DeepSearch article search
DeepSearchResponses ==
  {Response("ok", <<a>>) : a \in DOMAIN DeepSearchArticles}

\* the responses to one DeepSearch trending request
TrendingResponses ==
  {Response("ok", <<t>>) : t \in DOMAIN TrendingTopics}

\* the responses to one Naver search: one item, or item 1 followed by the
\* not relevant item 3
NaverResponses ==
  {Response("ok", <<n>>) : n \in DOMAIN NaverItems}
    \cup {Response("ok", <<1, 3>>)}

\* the RSS searches with a traffic-impact keyword, one attempt that
\* completes: one entry, or entry 4 followed by the LOW entry 3
RssSearches ==
  [stage : {Len(Stages)},
   attempts : {<<RssAttempt("ok", <<e>>)>> : e \in DOMAIN FeedEntries}
                \cup {<<RssAttempt("ok", <<4, 3>>)>>}]

\* one run of main; a source is called when its key is set
RunSources ==
  /\ \E k1 \in 0..MaxBatch :
     \E k2 \in 0..(MaxBatch - k1) :
     \E k3 \in 0..(MaxBatch - k1 - k2) :
     \E k4 \in 0..(MaxBatch - k1 - k2 - k3) :
       /\ fetched + k1 + k2 + k3 + k4 <= MaxFetched
       /\ \E ds \in [1..k1 -> DeepSearchResponses],
             tr \in [1..k2 -> TrendingResponses],
             nv \in [1..k3 -> NaverResponses],
             searches \in [1..k4 -> RssSearches],
             deepsearch_key \in {k1 + k2 > 0},
             naver_credentials \in {k3 > 0},
             groq_key \in BOOLEAN :
            RunOver(ds, tr, nv, searches, deepsearch_key, naver_credentials,
                    groq_key, FALSE)
  /\ UNCHANGED call_vars
  /\ UNCHANGED merge_vars
  /\ UNCHANGED mapper_vars
  /\ UNCHANGED aux_vars
  /\ UNCHANGED cache_vars

NextSources ==
  RunSources

SpecSources ==
  Init /\ [][NextSources]_vars

\* ------------------------------------------------------------------------
\* Specification of the calls: runs of main in which calls to the sources
\* and to the providers fail
\* ------------------------------------------------------------------------
\* the outcomes of one DeepSearch article search
DeepSearchOutcomes ==
  DeepSearchResponses
    \cup {Response("timeout", << >>), Response("non_200", << >>),
          Response("malformed", << >>)}

\* the outcomes of one DeepSearch trending request
TrendingOutcomes ==
  TrendingResponses \cup {Response("timeout", << >>)}

\* the outcomes of one Naver search; the last one raises after its first item
NaverOutcomes ==
  {Response("ok", <<n>>) : n \in DOMAIN NaverItems}
    \cup {Response("timeout", << >>), Response("non_200", << >>),
          Response("malformed", << >>), Response("malformed", <<1>>)}

\* the outcomes of one RSS search: one attempt that completes, three
\* attempts that raise at once, or an attempt that raises after its first
\* entry followed by one that completes
RssOutcomes ==
  [stage : {Len(Stages)},
   attempts : {<<RssAttempt("ok", <<e>>)>> : e \in DOMAIN FeedEntries}
                \cup {<<RssAttempt("raised", << >>), RssAttempt("raised", << >>),
                        RssAttempt("raised", << >>)>>,
                      <<RssAttempt("raised", <<1>>), RssAttempt("ok", <<1>>)>>}]

\* one run of main; a source is called when its key is set
RunCalls ==
  /\ \E k1 \in 0..MaxBatch :
     \E k2 \in 0..(MaxBatch - k1) :
     \E k3 \in 0..(MaxBatch - k1 - k2) :
     \E k4 \in 0..(MaxBatch - k1 - k2 - k3) :
       /\ fetched + k1 + k2 + k3 + k4 <= MaxFetched
       /\ \E ds \in [1..k1 -> DeepSearchOutcomes],
             tr \in [1..k2 -> TrendingOutcomes],
             nv \in [1..k3 -> NaverOutcomes],
             searches \in [1..k4 -> RssOutcomes],
             deepsearch_key \in {k1 + k2 > 0},
             naver_credentials \in {k3 > 0},
             groq_key \in BOOLEAN, use_paid \in BOOLEAN :
            RunOver(ds, tr, nv, searches, deepsearch_key, naver_credentials,
                    groq_key, use_paid)
  /\ UNCHANGED call_vars
  /\ UNCHANGED merge_vars
  /\ UNCHANGED mapper_vars
  /\ UNCHANGED aux_vars
  /\ UNCHANGED cache_vars

NextCalls ==
  RunCalls

SpecCalls ==
  Init /\ [][NextCalls]_vars

\* ------------------------------------------------------------------------
\* Specification of the classifier as a pure function
\* ------------------------------------------------------------------------
InitClassify ==
  /\ InitPipeline
  /\ InitNoMerge
  /\ InitNoMap
  /\ InitNoCache
  /\ InitNoAux
  /\ arg_title \in Titles
  /\ arg_summary \in Summaries
  /\ result = Triple(None, None, None)
  /\ pc = "call"

\* one call classify_news_priority(arg_title, arg_summary)
Classify ==
  /\ pc = "call"
  /\ pc' = "return"
  /\ result' = classify_news_priority(arg_title, arg_summary)
  /\ UNCHANGED <<arg_title, arg_summary>>
  /\ UNCHANGED pipeline_vars
  /\ UNCHANGED merge_vars
  /\ UNCHANGED mapper_vars
  /\ UNCHANGED aux_vars
  /\ UNCHANGED cache_vars

NextClassify ==
  Classify

SpecClassify ==
  InitClassify /\ [][NextClassify]_vars

\* ------------------------------------------------------------------------
\* Specification of the merge as a pure function
\* ------------------------------------------------------------------------
\* the items of the merge calls: a title and a url, '' for an item without
MergeItems ==
  [title : {<<"a">>, <<"b">>}, url : {<< >>, <<"u","1">>, <<"u","2">>}]

\* the lists of at most MaxMergeLen items
MergeLists ==
  UNION {[1..k -> MergeItems] : k \in 0..MaxMergeLen}

InitMerge ==
  /\ InitPipeline
  /\ InitCall
  /\ InitNoMap
  /\ InitNoCache
  /\ InitNoAux
  /\ merge_P \in MergeLists
  /\ merge_N \in MergeLists
  /\ merge_added = << >>
  /\ merge_count = 0
  /\ merge_P0 = merge_P
  /\ merge_split = 0

\* existing + remove_duplicates(existing, new), as main lines 1869-1872 merge
Merge ==
  /\ merge_count < MaxMerges
  /\ merge_added' = remove_duplicates(merge_P, merge_N)
  /\ merge_P' = merge_P \o remove_duplicates(merge_P, merge_N)
  /\ merge_count' = merge_count + 1
  /\ UNCHANGED <<merge_N, merge_P0, merge_split>>
  /\ UNCHANGED pipeline_vars
  /\ UNCHANGED call_vars
  /\ UNCHANGED mapper_vars
  /\ UNCHANGED aux_vars
  /\ UNCHANGED cache_vars

NextMerge ==
  Merge

SpecMerge ==
  InitMerge /\ [][NextMerge]_vars

\* ------------------------------------------------------------------------
\* Specification of the merge of a new list in two parts
\* ------------------------------------------------------------------------
\* merge_N is N1 ++ N2 with N1 its first merge_split items
InitSplit ==
  /\ InitPipeline
  /\ InitCall
  /\ InitNoMap
  /\ InitNoCache
  /\ InitNoAux
  /\ merge_P \in MergeLists
  /\ merge_N \in MergeLists
  /\ merge_split \in 0..Len(merge_N)
  /\ merge_P0 = merge_P
  /\ merge_added = << >>
  /\ merge_count = 0

\* the part of the new list the next merge takes: N1, then N2
merge_part ==
  IF merge_count = 0 THEN SubSeq(merge_N, 1, merge_split)
  ELSE SubSeq(merge_N, merge_split + 1, Len(merge_N))

\* existing + remove_duplicates(existing, part), as main lines 1869-1872 merge
MergePart ==
  /\ merge_count < 2
  /\ merge_added' = remove_duplicates(merge_P, merge_part)
  /\ merge_P' = merge_P \o remove_duplicates(merge_P, merge_part)
  /\ merge_count' = merge_count + 1
  /\ UNCHANGED <<merge_N, merge_P0, merge_split>>
  /\ UNCHANGED pipeline_vars
  /\ UNCHANGED call_vars
  /\ UNCHANGED mapper_vars
  /\ UNCHANGED aux_vars
  /\ UNCHANGED cache_vars

NextSplit ==
  MergePart

SpecSplit ==
  InitSplit /\ [][NextSplit]_vars

\* ------------------------------------------------------------------------
\* Specification of runs of main over the cache, the providers being
\* deterministic: an item gets the same answer whenever it is asked about
\* ------------------------------------------------------------------------
\* the feed entries the classifier gives priority high
HighEntries ==
  {e \in DOMAIN FeedEntries : classified[e].priority = "high"}

\* the feed entry an item was built from
entry_of(item) ==
  CHOOSE e \in DOMAIN FeedEntries :
    FeedEntries[e].title = item.title /\ FeedEntries[e].link = item.url

\* the provider configurations with the answer each provider gives for each
\* high-priority entry (one fixed answer for a provider that is not used)
CacheAdapters ==
  {a \in [groq_key : BOOLEAN, groq : [HighEntries -> GroqAnswers],
          use_paid : BOOLEAN, paid : [HighEntries -> PaidAnswers]] :
     /\ ~a.groq_key => a.groq = [e \in HighEntries |-> CHOOSE g \in GroqAnswers : TRUE]
     /\ ~a.use_paid => a.paid = [e \in HighEntries |-> CHOOSE p \in PaidAnswers : TRUE]}

\* the high-priority entries the searches of one run return
CacheBatches ==
  UNION {[1..k -> HighEntries] : k \in 1..MaxBatch}

\* what the providers of adapter a reply when main refines all_raw_news
\* with the given cache loaded
adapter_answers(a, all_raw_news, cache) ==
  LET high == high_priority_news(all_raw_news)
      to_process == cache_misses(high, cache)
  IN  [groq |-> IF a.groq_key
                  THEN [k \in 1..Len(to_process) |->
                          a.groq[entry_of(high[to_process[k]])]]
                  ELSE << >>,
       paid |-> IF a.use_paid
                  THEN [k \in 1..Len(to_process) |->
                          a.paid[entry_of(high[to_process[k]])]]
                  ELSE << >>]

\* title, url, category and category_group of the rows of the store
persisted(csv) ==
  [i \in 1..Len(csv) |-> [title |-> csv[i].title, url |-> csv[i].url,
                          category |-> csv[i].category,
                          category_group |-> csv[i].category_group]]

InitCache ==
  /\ InitPipeline
  /\ InitCall
  /\ InitNoMerge
  /\ InitNoMap
  /\ cache_adapter \in CacheAdapters
  /\ cache_log = NoCacheLog
  /\ fault_log = NoFaultLog
  /\ InitNoAux

\* one run of main whose searches return the entries es.  The log keeps the
\* keys of the loaded cache, the keys of the batch, the keys given to the
\* providers, whether the batch is that of the run before, and whether the
\* store is the one the same run writes when it starts with an empty cache.
RunCached ==
  /\ \E es \in {b \in CacheBatches : fetched + Len(b) <= MaxCacheFetched} :
       LET a == cache_adapter
           all_raw_news ==
             collect_raw_news([i \in 1..Len(es) |->
                                 [stage |-> Len(Stages),
                                  attempts |-> <<RssAttempt("ok", <<es[i]>>)>>]])
           high == high_priority_news(all_raw_news)
           warm == adapter_answers(a, all_raw_news,
                                   load_cache(news_cache, files.cache).value)
           cold == adapter_answers(a, all_raw_news, << >>)
       IN  \E out \in {main(news_csv, news_cache, files, all_raw_news,
                           a.groq_key, warm.groq, a.use_paid, warm.paid, TRUE)},
              ref \in {main(news_csv, << >>, [files EXCEPT !.cache = "absent"],
                           all_raw_news,
                           a.groq_key, cold.groq, a.use_paid, cold.paid, TRUE)} :
              /\ news_csv' = out.csv
              /\ news_cache' = out.cache
              /\ files' = out.files
              /\ unique_new_news' = out.unique_new_news
              /\ returned' = <<out.rc>>
              /\ judged' = judged \cup out.judged
              /\ env' = [groq_key |-> a.groq_key, use_paid |-> a.use_paid]
              /\ fetched' = fetched + Len(es)
              /\ run_log' = NoLog
              /\ cache_log' =
                   [batch |-> es,
                    repeat |-> cache_log.batch = es,
                    as_cold |-> persisted(out.csv) = persisted(ref.csv),
                    before |-> DOMAIN load_cache(news_cache, files.cache).value,
                    keys |-> {cache_key_of(high[i]) : i \in 1..Len(high)},
                    sent |-> out.sent]
  /\ UNCHANGED cache_adapter
  /\ UNCHANGED fault_log
  /\ UNCHANGED call_vars
  /\ UNCHANGED merge_vars
  /\ UNCHANGED mapper_vars
  /\ UNCHANGED aux_vars

NextCache ==
  RunCached

SpecCache ==
  InitCache /\ [][NextCache]_vars

\* ------------------------------------------------------------------------
\* Claims about the cache (specification SpecCache)
\* ------------------------------------------------------------------------
\* C15: a run over the items of the run before, which starts with the cache
\* that run wrote, leaves for every item the same fate (stored or not) and
\* the same stored category and category_group as the same run leaves when
\* it starts with an empty cache.
C15_CacheKeepsOutcome ==
  cache_log.repeat => cache_log.as_cold

\* the keys the last run gave to a provider
SentKeys ==
  {cache_log.sent.groq[k] : k \in DOMAIN cache_log.sent.groq}
    \cup {cache_log.sent.paid[k] : k \in DOMAIN cache_log.sent.paid}

\* C16: no item whose key is in the loaded cache is given to Groq or to the
\* paid provider; the items given to a provider are items of the batch whose
\* key is not in the loaded cache, and every such key has an entry in the
\* cache the run saves.
C16_HitsAreNotRefined ==
  /\ SentKeys \cap cache_log.before = {}
  /\ SentKeys \subseteq cache_log.keys \ cache_log.before
  /\ \A key \in cache_log.keys \ cache_log.before :
        key \in DOMAIN news_cache /\ files.cache = "ok"

\* a run with both providers found one item of its batch in the cache and
\* gave the other one to both providers
C16_Witness ==
  /\ Cardinality(cache_log.keys) = 2
  /\ Cardinality(cache_log.keys \cap cache_log.before) = 1
  /\ Len(cache_log.sent.groq) = 1
  /\ Len(cache_log.sent.paid) = 1
  /\ cache_log.sent.groq[1] \in DOMAIN news_cache

\* ------------------------------------------------------------------------
\* Specification of runs of main over files that get damaged between the
\* runs, and whose store may fail to be written
\* ------------------------------------------------------------------------
\* the feed entries the searches return: one of priority high, one of
\* priority medium
FaultEntries ==
  {1, 4}

FaultBatches ==
  UNION {[1..k -> FaultEntries] : k \in 0..MaxBatch}

\* the rows a run starting now would read from the store
stored_rows(csv, conditions) ==
  IF conditions.store = "ok" THEN {csv[i] : i \in 1..Len(csv)} ELSE {}

\* the cache file is deleted, made unreadable, or overwritten with text
\* that is no JSON or with the JSON text null
DamageCache ==
  /\ \E condition \in CacheConditions \ {"ok"} :
       files' = [files EXCEPT !.cache = condition]
  /\ news_cache' = << >>
  /\ UNCHANGED <<news_csv, fetched, env, unique_new_news, returned, judged, run_log>>
  /\ UNCHANGED fault_log
  /\ UNCHANGED <<cache_adapter, cache_log>>
  /\ UNCHANGED call_vars
  /\ UNCHANGED merge_vars
  /\ UNCHANGED mapper_vars
  /\ UNCHANGED aux_vars

\* the store is deleted, or made unreadable with its content left in place
DamageStore ==
  /\ \E condition \in StoreConditions \ {"ok"} :
       /\ files' = [files EXCEPT !.store = condition]
       /\ news_csv' = IF condition = "missing" THEN << >> ELSE news_csv
  /\ UNCHANGED <<news_cache, fetched, env, unique_new_news, returned, judged, run_log>>
  /\ UNCHANGED fault_log
  /\ UNCHANGED <<cache_adapter, cache_log>>
  /\ UNCHANGED call_vars
  /\ UNCHANGED merge_vars
  /\ UNCHANGED mapper_vars
  /\ UNCHANGED aux_vars

\* one run of main without providers over the files as they are, the write
\* of the store succeeding or not.  The log keeps which faults the run met,
\* whether it ended as the same run over an absent cache ends, and whether
\* the store afterwards holds the items the run collected.
RunFaulty ==
  /\ \E es \in {b \in FaultBatches : fetched + Len(b) <= MaxFaultFetched},
        write_ok \in BOOLEAN :
       LET all_raw_news ==
             collect_raw_news([i \in 1..Len(es) |->
                                 [stage |-> Len(Stages),
                                  attempts |-> <<RssAttempt("ok", <<es[i]>>)>>]])
       IN  \E out \in {main(news_csv, news_cache, files, all_raw_news,
                           FALSE, << >>, FALSE, << >>, write_ok)},
              ref \in {main(news_csv, << >>, [files EXCEPT !.cache = "absent"],
                           all_raw_news, FALSE, << >>, FALSE, << >>, write_ok)} :
              /\ news_csv' = out.csv
              /\ news_cache' = out.cache
              /\ files' = out.files
              /\ unique_new_news' = out.unique_new_news
              /\ returned' = <<out.rc>>
              /\ judged' = judged \cup out.judged
              /\ env' = [groq_key |-> FALSE, use_paid |-> FALSE]
              /\ fetched' = fetched + Len(es)
              /\ run_log' = NoLog
              /\ fault_log' =
                   [cache_fault |-> files.cache # "ok",
                    as_empty_cache |-> /\ out.csv = ref.csv
                                       /\ out.files.store = ref.files.store
                                       /\ out.unique_new_news = ref.unique_new_news
                                       /\ out.rc = ref.rc,
                    store_fault |-> files.store # "ok",
                    other_fault |-> ~write_ok \/ files.cache = "json_null",
                    store_is_collected |->
                       stored_rows(out.csv, out.files)
                         = {to_csv_row(out.all_refined_news[i]) :
                              i \in 1..Len(out.all_refined_news)},
                    new_items |-> all_raw_news # << >>,
                    write_failed |-> ~write_ok /\ out.unique_new_news # << >>]
  /\ UNCHANGED <<cache_adapter, cache_log>>
  /\ UNCHANGED call_vars
  /\ UNCHANGED merge_vars
  /\ UNCHANGED mapper_vars
  /\ UNCHANGED aux_vars

InitFaults ==
  Init

NextFaults ==
  \/ RunFaulty
  \/ DamageCache
  \/ DamageStore

SpecFaults ==
  InitFaults /\ [][NextFaults]_vars

C20_FailedCallIsNoCall ==
  run_log.failed # {} => (run_log.as_without /\ returned # <<-1>>)

\* ------------------------------------------------------------------------
\* Claims about damaged files (specification SpecFaults)
\* ------------------------------------------------------------------------
\* C17: a run that finds the cache file absent, unreadable or with corrupt
\* content ends as the same run over an absent cache ends: the same store,
\* the same appended items, the same return value, and so never -1 because
\* of the cache.
C17_DamagedCacheIsEmptyCache ==
  fault_log.cache_fault => fault_log.as_empty_cache

C19_FailedWriteIsFailure ==
  fault_log.write_failed => returned = <<-1>> /\ returned \notin {<<0>>, <<1>>}

\* a run had new items and could not write them
C19_Witness ==
  /\ fault_log.write_failed
  /\ unique_new_news # << >>
  /\ returned = <<-1>>

\* ------------------------------------------------------------------------
\* Specification of one fetch_news_from_rss call, attempt by attempt, and of
\* the refinement of the list it returns, request by request
\* ------------------------------------------------------------------------
\* the entries of the feed: two of priority high, one of priority low
RetryEntries ==
  {1, 3, 5}

\* what an attempt goes through before it completes or raises
RetryFeeds ==
  {es \in UNION {[1..k -> RetryEntries] : k \in 0..MaxFeedLen} :
     \A i, j \in DOMAIN es : i # j => es[i] # es[j]}

RetryOutcomes ==
  {RssAttempt(s, es) : s \in {"ok", "raised"}, es \in RetryFeeds}

\* to_process of smart_refine_batch for the returned list, the cache empty
retry_to_process ==
  high_priority_news(retry_news_list)

\* where smart_refine_batch goes on after the Groq stage
after_groq_stage ==
  IF retry_env.use_paid THEN "paid" ELSE "done"

InitRetry ==
  /\ InitPipeline
  /\ InitCall
  /\ InitNoMerge
  /\ InitNoMap
  /\ InitNoCache
  /\ InitNoDigest
  /\ InitNoRepair
  /\ InitNoXval
  /\ retry_pc = "attempt"
  /\ retry_env \in [groq_key : BOOLEAN, use_paid : BOOLEAN]
  /\ retry_history = << >>
  /\ retry_news_list = << >>
  /\ retry_requests = [groq |-> << >>, paid |-> << >>]

\* one pass of the loop body (lines 1164-1227): the attempt appends the
\* entries it gets through and then completes (break) or raises
RssAttemptStep ==
  /\ retry_pc = "attempt"
  /\ in_range(Len(retry_history), max_retries)
  /\ \E a \in RetryOutcomes :
       /\ retry_news_list' = retry_news_list \o rss_appended(a.items)
       /\ retry_history' = Append(retry_history, a.status)
       /\ retry_pc' = IF a.status = "ok" THEN "returned" ELSE "attempt"
  /\ UNCHANGED <<retry_env, retry_requests>>
  /\ UNCHANGED <<pipeline_vars, call_vars, merge_vars, mapper_vars, cache_vars>>
  /\ UNCHANGED <<digest_vars, repair_vars, xval_vars>>

\* the loop ends after the last attempt raised; line 1229 returns news_list
RssExhausted ==
  /\ retry_pc = "attempt"
  /\ ~in_range(Len(retry_history), max_retries)
  /\ retry_pc' = "returned"
  /\ UNCHANGED <<retry_env, retry_history, retry_news_list, retry_requests>>
  /\ UNCHANGED <<pipeline_vars, call_vars, merge_vars, mapper_vars, cache_vars>>
  /\ UNCHANGED <<digest_vars, repair_vars, xval_vars>>

\* smart_refine_batch up to the first stage (lines 616-644)
StartRefine ==
  /\ retry_pc = "returned"
  /\ retry_pc' = IF retry_to_process = << >> THEN "done"
                 ELSE IF retry_env.groq_key THEN "groq"
                 ELSE after_groq_stage
  /\ UNCHANGED <<retry_env, retry_history, retry_news_list, retry_requests>>
  /\ UNCHANGED <<pipeline_vars, call_vars, merge_vars, mapper_vars, cache_vars>>
  /\ UNCHANGED <<digest_vars, repair_vars, xval_vars>>

\* one pass of the batch loop of fetch_from_groq (lines 186-249): one
\* request for the batch that starts at i; an exception ends the loop
GroqBatch ==
  /\ retry_pc = "groq"
  /\ LET i == batch_size * Len(retry_requests.groq)
     IN  \E outcome \in {"ok", "non_200", "no_json", "raised"} :
           /\ retry_requests' =
                [retry_requests EXCEPT
                   !.groq = Append(@, [batch |-> i, outcome |-> outcome])]
           /\ retry_pc' = IF outcome # "raised"
                             /\ i + batch_size < Len(retry_to_process)
                            THEN "groq" ELSE after_groq_stage
  /\ UNCHANGED <<retry_env, retry_history, retry_news_list>>
  /\ UNCHANGED <<pipeline_vars, call_vars, merge_vars, mapper_vars, cache_vars>>
  /\ UNCHANGED <<digest_vars, repair_vars, xval_vars>>

\* one pass of the loop over top_news (lines 661-668): one call of
\* refine_news_with_ai for the item at position j of to_process
PaidCall ==
  /\ retry_pc = "paid"
  /\ LET j == Len(retry_requests.paid) + 1
     IN  \E outcome \in {"ok", "failed"} :
           /\ retry_requests' =
                [retry_requests EXCEPT
                   !.paid = Append(@, [item |-> j, outcome |-> outcome])]
           /\ retry_pc' = IF j < Len(retry_to_process) /\ j < top_news_max
                            THEN "paid" ELSE "done"
  /\ UNCHANGED <<retry_env, retry_history, retry_news_list>>
  /\ UNCHANGED <<pipeline_vars, call_vars, merge_vars, mapper_vars, cache_vars>>
  /\ UNCHANGED <<digest_vars, repair_vars, xval_vars>>

NextRetry ==
  \/ RssAttemptStep
  \/ RssExhausted
  \/ StartRefine
  \/ GroqBatch
  \/ PaidCall

\* the calls return: no step that can be taken is put off for ever
SpecRetry ==
  InitRetry /\ [][NextRetry]_vars /\ WF_vars(NextRetry)

\* ------------------------------------------------------------------------
\* Claims about retries (specification SpecRetry)
\* ------------------------------------------------------------------------
\* at most max_retries attempts, none after one that completed; no batch
\* and no item is requested twice
RetriesBounded ==
  /\ Len(retry_history) <= max_retries
  /\ \A k \in 1..(Len(retry_history) - 1) : retry_history[k] = "raised"
  /\ \A h, k \in DOMAIN retry_requests.groq :
        h # k => retry_requests.groq[h].batch # retry_requests.groq[k].batch
  /\ \A h, k \in DOMAIN retry_requests.paid :
        h # k => retry_requests.paid[h].item # retry_requests.paid[k].item

\* C21: fetch_news_from_rss makes at most max_retries attempts, makes none
\* after an attempt that completed, and returns; Groq is asked at most once
\* about a batch and the paid provider at most once about an item, whatever
\* the requests end with; the refinement ends too.
C21_RetriesBoundedAndConfined ==
  /\ []RetriesBounded
  /\ <>(retry_pc \in {"returned", "groq", "paid", "done"})
  /\ <>(retry_pc = "done")

\* three attempts that raised, then two Groq batches of which the second got
\* a non-200 status, then six paid calls of which the last failed
C21_Witness ==
  /\ retry_pc = "done"
  /\ retry_history = <<"raised", "raised", "raised">>
  /\ Len(retry_requests.groq) = 2
  /\ retry_requests.groq[2].outcome = "non_200"
  /\ Len(retry_requests.paid) = 6
  /\ retry_requests.paid[6].outcome = "failed"

\* ------------------------------------------------------------------------
\* Specification of the category-group mapper as a pure function
\* ------------------------------------------------------------------------
\* the values a category can have: the categories of the four lists, the
\* categories of the Naver path and of the medium rule "school", a category
\* in another letter case or with blanks around it, an unknown one, '',
\* None and nan
Categories ==
  outage_block \cup social_crisis \cup seasonal_calendar \cup gaming_competitor
    \cup {"other", "disaster", "conflict", "outage", "school", "Holiday",
          " holiday ", "unknown_event", "", None, NaN}

\* two calls are to be made, with any two categories
InitMapper ==
  /\ InitPipeline
  /\ InitCall
  /\ InitNoMerge
  /\ InitNoCache
  /\ InitNoAux
  /\ map_args \in Categories \X Categories
  /\ map_results = << >>

\* one call map_to_group_category(detail_category) with the next category
MapCategory ==
  /\ Len(map_results) < Len(map_args)
  /\ map_results' = Append(map_results,
                           map_to_group_category(map_args[Len(map_results) + 1]))
  /\ UNCHANGED map_args
  /\ UNCHANGED pipeline_vars
  /\ UNCHANGED call_vars
  /\ UNCHANGED merge_vars
  /\ UNCHANGED cache_vars
  /\ UNCHANGED aux_vars

NextMapper ==
  MapCategory

SpecMapper ==
  InitMapper /\ [][NextMapper]_vars

\* ------------------------------------------------------------------------
\* Claims about the category-group mapper (specification SpecMapper)
\* ------------------------------------------------------------------------
\* C14: every call returns one of the five groups; a category of one of the
\* four lists maps to the group of its list, every other value (an unknown
\* category, '', None, nan) maps to other; two calls with the same category
\* return the same group.
C14_MapperFollowsTable ==
  /\ \A k \in DOMAIN map_results :
        /\ map_results[k] \in {"outage_block", "social_crisis", "seasonal_calendar",
                               "gaming_competitor", "other"}
        /\ map_args[k] \in outage_block => map_results[k] = "outage_block"
        /\ map_args[k] \in social_crisis => map_results[k] = "social_crisis"
        /\ map_args[k] \in seasonal_calendar => map_results[k] = "seasonal_calendar"
        /\ map_args[k] \in gaming_competitor => map_results[k] = "gaming_competitor"
        /\ map_args[k] \notin (outage_block \cup social_crisis \cup seasonal_calendar
                                 \cup gaming_competitor)
             => map_results[k] = "other"
  /\ \A j, k \in DOMAIN map_results :
        map_args[j] = map_args[k] => map_results[j] = map_results[k]

\* None was mapped to other, and then a category of the seasonal list to its
\* group
C14_Witness ==
  /\ map_args = <<None, "election">>
  /\ map_results = <<"other", "seasonal_calendar">>

\* ------------------------------------------------------------------------
\* Claims about the classifier (specification SpecClassify)
\* ------------------------------------------------------------------------
\* the lower-cased text the call looked at
CallText ==
  str_lower(arg_title \o <<" ">> \o arg_summary)

HasExcluded ==
  \E i \in DOMAIN EXCLUDE_PATTERNS : str_in(str_lower(EXCLUDE_PATTERNS[i]), CallText)

HasCritical ==
  \E i \in DOMAIN HIGH_PRIORITY_critical :
     str_in(str_lower(HIGH_PRIORITY_critical[i]), CallText)

HasCountry ==
  \E i \in DOMAIN HIGH_PRIORITY_countries :
     str_in(str_lower(HIGH_PRIORITY_countries[i]), CallText)

HasGaming ==
  \E i \in DOMAIN MEDIUM_RULES_gaming :
     str_in(str_lower(MEDIUM_RULES_gaming[i]), CallText)

HasHoliday ==
  \E i \in DOMAIN MEDIUM_RULES_holiday :
     str_in(str_lower(MEDIUM_RULES_holiday[i]), CallText)

HasSchool ==
  \E i \in DOMAIN MEDIUM_RULES_school :
     str_in(str_lower(MEDIUM_RULES_school[i]), CallText)

\* C7: a text that contains an exclusion pattern is classified (low, None,
\* None), whatever critical, country or medium keywords it also contains.
C7_ExclusionWins ==
  (pc = "return" /\ HasExcluded) => result = Triple("low", None, None)

\* an excluded text that also holds a critical keyword, a watched country and
\* a medium-rule keyword has been classified
C7_Witness ==
  /\ pc = "return"
  /\ HasExcluded /\ HasCritical /\ HasCountry /\ HasGaming
  /\ result.priority = "low"

\* C8: a text with a critical keyword and no exclusion pattern is classified
\* (high, traffic_impact, None), also when it holds gaming, holiday or school
\* keywords.
C8_CriticalIsHigh ==
  (pc = "return" /\ ~HasExcluded /\ HasCritical)
     => result = Triple("high", "traffic_impact", None)

\* a critical text that also holds gaming and holiday keywords has been
\* classified
C8_Witness ==
  /\ pc = "return"
  /\ ~HasExcluded /\ HasCritical /\ HasGaming /\ HasHoliday
  /\ result.priority = "high"

\* C9: without exclusion pattern and critical keyword, the first group with a
\* matching keyword, in the order gaming, holiday, school, decides the result.
C9_FirstGroupDecides ==
  (pc = "return" /\ ~HasExcluded /\ ~HasCritical) =>
     /\ HasGaming => result = Triple("medium", "gaming", "gaming")
     /\ (~HasGaming /\ HasHoliday)
          => result = Triple("medium", "traffic_impact", "holiday")
     /\ (~HasGaming /\ ~HasHoliday /\ HasSchool)
          => result = Triple("medium", "traffic_impact", "school_calendar")

\* a text matching all three groups has been classified as gaming
C9_Witness ==
  /\ pc = "return"
  /\ ~HasExcluded /\ ~HasCritical
  /\ HasGaming /\ HasHoliday /\ HasSchool
  /\ result.news_type = "gaming"

\* C10: a text that matches no exclusion pattern, no critical keyword and no
\* medium-rule keyword is classified (low, None, None).
C10_DefaultIsLow ==
  (pc = "return" /\ ~HasExcluded /\ ~HasCritical
      /\ ~HasGaming /\ ~HasHoliday /\ ~HasSchool)
     => result = Triple("low", None, None)

\* a non-empty text that matches nothing but a watched country has been
\* classified
C10_Witness ==
  /\ pc = "return"
  /\ ~HasExcluded /\ ~HasCritical /\ ~HasGaming /\ ~HasHoliday /\ ~HasSchool
  /\ HasCountry
  /\ result.priority = "low"

\* ------------------------------------------------------------------------
\* Claims about the runs of main (specification Spec)
\* ------------------------------------------------------------------------
\* C1: after any sequence of runs, no two rows of the store have the same
\* URL; two new items of one batch with the same URL leave one row.
C1_UrlUniqueInStore ==
  \A i, j \in DOMAIN news_csv :
     (i # j /\ news_csv[i].url # << >>) => news_csv[i].url # news_csv[j].url

\* C3: an item a provider judged not relevant is never a row of the store,
\* neither after the run that judged it nor after a later run that fetches
\* it again.
C3_NotRelevantNeverStored ==
  \A i \in DOMAIN news_csv : <<news_csv[i].title, news_csv[i].url>> \notin judged

\* C4: every item main appends has category_group =
\* map_to_group_category(category).
C4_GroupFollowsCategory ==
  \A i \in DOMAIN unique_new_news :
     unique_new_news[i].category_group
        = map_to_group_category(unique_new_news[i].category)

\* C5: no row of the store has news_type gaming with an outage or crisis
\* category, nor news_type traffic_impact with the category gaming.
C5_TypeAndCategoryConsistent ==
  \A i \in DOMAIN news_csv :
     /\ ~(/\ news_csv[i].news_type = "gaming"
          /\ news_csv[i].category \in outage_block \cup social_crisis)
     /\ ~(/\ news_csv[i].news_type = "traffic_impact"
          /\ news_csv[i].category = "gaming")

\* no provider is configured in the last run and none has ever written a
\* cache entry
NoRefinement ==
  /\ ~env.groq_key
  /\ ~env.use_paid
  /\ \A k \in DOMAIN news_cache : news_cache[k].api_source = None

\* C6: a high-priority item processed without any refinement provider is
\* appended with news_type traffic_impact, a blank category and the
\* category_group other.
C6_UnrefinedHighKeepsBlankCategory ==
  NoRefinement =>
     \A i \in DOMAIN unique_new_news :
        unique_new_news[i].priority = "high" =>
           /\ unique_new_news[i].news_type = "traffic_impact"
           /\ falsy(unique_new_news[i].category)
           /\ unique_new_news[i].category_group = "other"

C2_SecondMergeAddsNothing ==
  merge_count = 2 => merge_added = << >>

\* C12: a merge leaves the persisted list as the unchanged prefix of the
\* merged list, same items in the same order, and appends the surviving new
\* items in the order they had in the new list.
C12_MergeKeepsPrefix ==
  [][merge_count' = merge_count + 1 =>
       /\ merge_P' = merge_P \o merge_added'
       /\ SubSeq(merge_P', 1, Len(merge_P)) = merge_P
       /\ merge_added' = SelectSeq(merge_N,
                           LAMBDA n : \E i \in DOMAIN merge_added' : merge_added'[i] = n)]_vars

\* a merge has appended two different new items, in the order of the new
\* list, to a persisted list that was not empty
C12_Witness ==
  /\ merge_count = 1
  /\ Len(merge_added) >= 2
  /\ merge_added[1] # merge_added[2]
  /\ merge_added = merge_N
  /\ Len(merge_P) > Len(merge_added)

\* ------------------------------------------------------------------------
\* Claims about the merge in two parts (specification SpecSplit)
\* ------------------------------------------------------------------------
\* no two items of N1 ++ N2 have the same URL, unless the persisted list has
\* that URL (an item without URL has no identity key)
NoCollision ==
  \A i, j \in DOMAIN merge_N :
     (i # j /\ url_truthy(merge_N[i].url) /\ merge_N[i].url = merge_N[j].url)
        => \E k \in DOMAIN merge_P0 : merge_P0[k].url = merge_N[i].url

\* C13: without collision inside N1 ++ N2, merging N1 and then N2 gives the
\* list a single merge of N1 ++ N2 gives.
C13_SplitMergeIsOneMerge ==
  (merge_count = 2 /\ NoCollision)
     => merge_P = merge_P0 \o remove_duplicates(merge_P0, merge_N)

\* both parts were merged, each held an item, one survived and one was
\* dropped for a URL of the persisted list
C13_Witness ==
  /\ merge_count = 2
  /\ NoCollision
  /\ merge_split > 0
  /\ merge_split < Len(merge_N)
  /\ Len(merge_P) = Len(merge_P0) + 1

\* ------------------------------------------------------------------------
\* Daily digest: generate_traffic_summary of fetch_news.py writes
\* data/summary.json, send_slack.py renders the summary of the digest
\* ------------------------------------------------------------------------
\* module-level lists of send_slack.py
IMPACT_KEYWORDS_high_impact ==
  <<
    <<"i","n","t","e","r","n","e","t"," ","s","h","u","t","d","o","w","n">>,   \* internet shutdown
    <<"i","n","t","e","r","n","e","t"," ","o","u","t","a","g","e">>,   \* internet outage
    <<"p","o","w","e","r"," ","o","u","t","a","g","e">>,   \* power outage
    <<"b","l","a","c","k","o","u","t">>,   \* blackout
    <<"uC778","uD130","uB137"," ","uCC28","uB2E8">>,   \* 인터넷 차단
    <<"uC778","uD130","uB137"," ","uC7A5","uC560">>,   \* 인터넷 장애
    <<"uC815","uC804">>,   \* 정전
    <<"uB300","uADDC","uBAA8"," ","uC815","uC804">>,   \* 대규모 정전
    <<"e","a","r","t","h","q","u","a","k","e"," ","d","a","m","a","g","e">>,   \* earthquake damage
    <<"f","l","o","o","d"," ","d","a","m","a","g","e">>,   \* flood damage
    <<"t","y","p","h","o","o","n"," ","d","a","m","a","g","e">>,   \* typhoon damage
    <<"uC9C0","uC9C4"," ","uD53C","uD574">>,   \* 지진 피해
    <<"uD64D","uC218"," ","uD53C","uD574">>,   \* 홍수 피해
    <<"uD0DC","uD48D"," ","uD53C","uD574">>,   \* 태풍 피해
    <<"uD1B5","uC2E0","uB9DD">>,   \* 통신망
    <<"uC778","uD504","uB77C"," ","uD53C","uD574">>   \* 인프라 피해
  >>

IMPACT_KEYWORDS_medium_impact ==
  <<
    <<"c","u","r","f","e","w">>,   \* curfew
    <<"m","a","r","t","i","a","l"," ","l","a","w">>,   \* martial law
    <<"uD1B5","uAE08">>,   \* 통금
    <<"uACC4","uC5C4">>,   \* 계엄
    <<"n","a","t","i","o","n","a","l"," ","h","o","l","i","d","a","y">>,   \* national holiday
    <<"uAD6D","uACBD","uC77C">>,   \* 국경일
    <<"uC5F0","uD734">>   \* 연휴
  >>

\* the dict in the order of its keys
IMPACT_KEYWORDS ==
  <<[level |-> "high_impact", keywords |-> IMPACT_KEYWORDS_high_impact],
    [level |-> "medium_impact", keywords |-> IMPACT_KEYWORDS_medium_impact]>>

EXCLUDE_KEYWORDS ==
  <<
    <<"M","A","M","A">>,   \* MAMA
    <<"A","w","a","r","d","s">>,   \* Awards
    <<"uC2DC","uC0C1","uC2DD">>,   \* 시상식
    <<"uCF58","uC11C","uD2B8">>,   \* 콘서트
    <<"c","o","n","c","e","r","t">>,   \* concert
    <<"uC568","uBC94">>,   \* 앨범
    <<"a","l","b","u","m">>,   \* album
    <<"K","-","p","o","p">>,   \* K-pop
    <<"i","d","o","l">>,   \* idol
    <<"uC544","uC774","uB3CC">>,   \* 아이돌
    <<"uAC78","uADF8","uB8F9">>,   \* 걸그룹
    <<"uBCF4","uC774","uADF8","uB8F9">>,   \* 보이그룹
    <<"m","o","u","r","n","i","n","g">>,   \* mourning
    <<"uB4DC","uB77C","uB9C8">>,   \* 드라마
    <<"uC608","uB2A5">>,   \* 예능
    <<"uC2DC","uCCAD","uB960">>,   \* 시청률
    <<"uB137","uD50C","uB9AD","uC2A4">>,   \* 넷플릭스
    <<"N","e","t","f","l","i","x">>,   \* Netflix
    <<"uC5F4","uC560","uC124">>,   \* 열애설
    <<"uACB0","uBCC4","uC124">>,   \* 결별설
    <<"uC2A4","uCE94","uB4E4">>,   \* 스캔들
    <<"uC601","uD654","uC81C">>,   \* 영화제
    <<"uB808","uB4DC","uCE74","uD3AB">>,   \* 레드카펫
    <<"i","m","m","i","g","r","a","t","i","o","n"," ","p","r","o","t","e","s","t">>,   \* immigration protest
    <<"h","i","n","d","u"," ","p","r","o","t","e","s","t">>,   \* hindu protest
    <<"f","a","r","m","e","r"," ","p","r","o","t","e","s","t">>,   \* farmer protest
    <<"P","P","P">>,   \* PPP
    <<"uAD6D","uBBFC","uC758","uD798">>,   \* 국민의힘
    <<"uB354","uBD88","uC5B4","uBBFC","uC8FC","uB2F9">>,   \* 더불어민주당
    <<"uBBFC","uC8FC","uB2F9">>,   \* 민주당
    <<"uAD6D","uD68C">>,   \* 국회
    <<"c","o","u","r","t"," ","h","e","a","r","i","n","g">>,   \* court hearing
    <<"uBC95","uC6D0">>,   \* 법원
    <<"uC7AC","uD310">>,   \* 재판
    <<"uD0C4","uD575">>,   \* 탄핵
    <<"C","h","o","o"," ","K","y","u","n","g","-","h","o">>,   \* Choo Kyung-ho
    <<"uCD94","uACBD","uD638">>,   \* 추경호
    <<"uC774","uC7AC","uBA85">>,   \* 이재명
    <<"uC724","uC11D","uC5F4">>,   \* 윤석열
    <<"uD55C","uB3D9","uD6C8">>,   \* 한동훈
    <<"i","m","p","e","a","c","h","m","e","n","t">>,   \* impeachment
    <<"uD55C","uAD6D">>,   \* 한국
    <<"S","o","u","t","h"," ","K","o","r","e","a">>,   \* South Korea
    <<"K","o","r","e","a">>,   \* Korea
    <<"uBD81","uD55C">>,   \* 북한
    <<"N","o","r","t","h"," ","K","o","r","e","a">>,   \* North Korea
    <<"uC11C","uC6B8">>,   \* 서울
    <<"S","e","o","u","l">>,   \* Seoul
    <<"uB124","uC774","uD2B8">>,   \* 네이트
    <<"n","a","t","e",".","c","o","m">>,   \* nate.com
    <<"e","s","p","o","r","t","s">>,   \* esports
    <<"e","-","s","p","o","r","t","s">>,   \* e-sports
    <<"e","uC2A4","uD3EC","uCE20">>,   \* e스포츠
    <<"uC774","uC2A4","uD3EC","uCE20">>,   \* 이스포츠
    <<"P","M","G","C">>,   \* PMGC
    <<"P","M","P","L">>,   \* PMPL
    <<"t","o","u","r","n","a","m","e","n","t">>,   \* tournament
    <<"uD1A0","uB108","uBA3C","uD2B8">>,   \* 토너먼트
    <<"uB300","uD68C">>,   \* 대회
    <<"c","h","a","m","p","i","o","n","s","h","i","p">>,   \* championship
    <<"l","e","a","g","u","e">>,   \* league
    <<"uB9AC","uADF8">>,   \* 리그
    <<"uD504","uB85C","uC120","uC218">>,   \* 프로선수
    <<"uD504","uB85C","uD300">>,   \* 프로팀
    <<"uAD11","uACE0">>,   \* 광고
    <<"uD611","uCC2C">>,   \* 협찬
    <<"uB9C8","uCF00","uD305">>,   \* 마케팅
    <<"uCEA0","uD398","uC778">>,   \* 캠페인
    <<"c","a","m","p","a","i","g","n">>,   \* campaign
    <<"uD504","uB85C","uBAA8","uC158">>,   \* 프로모션
    <<"s","p","o","n","s","o","r","e","d">>,   \* sponsored
    <<"s","p","o","n","s","o","r","s","h","i","p">>,   \* sponsorship
    <<"P","P","L">>,   \* PPL
    <<"uBCF4","uB3C4","uC790","uB8CC">>,   \* 보도자료
    <<"uC99D","uC2DC">>,   \* 증시
    <<"uCF54","uC2A4","uD53C">>,   \* 코스피
    <<"uCF54","uC2A4","uB2E5">>,   \* 코스닥
    <<"uB098","uC2A4","uB2E5">>,   \* 나스닥
    <<"uC8FC","uAC00">>,   \* 주가
    <<"uC7A5"," ","uB9C8","uAC10">>,   \* 장 마감
    <<"s","t","o","c","k"," ","p","r","i","c","e">>,   \* stock price
    <<"e","a","r","n","i","n","g","s">>,   \* earnings
    <<"I","P","O">>,   \* IPO
    <<"uC2E4","uC801","uBC1C","uD45C">>,   \* 실적발표
    <<"uBC30","uB2F9">>,   \* 배당
    <<"uCC44","uC6A9">>,   \* 채용
    <<"uACF5","uCC44">>,   \* 공채
    <<"uAD6C","uC778">>,   \* 구인
    <<"h","i","r","i","n","g">>,   \* hiring
    <<"r","e","c","r","u","i","t","m","e","n","t">>,   \* recruitment
    <<"uBD84","uC591">>,   \* 분양
    <<"uCCAD","uC57D">>,   \* 청약
    <<"uC804","uC138">>,   \* 전세
    <<"uC6D4","uC138">>,   \* 월세
    <<"uB9E4","uB9E4","uAC00">>,   \* 매매가
    <<"uC9D1","uAC12">>,   \* 집값
    <<"uC624","uB298","uC758"," ","uB0A0","uC528">>,   \* 오늘의 날씨
    <<"uBBF8","uC138","uBA3C","uC9C0">>,   \* 미세먼지
    <<"uB808","uC2DC","uD53C">>,   \* 레시피
    <<"uB9DB","uC9D1">>,   \* 맛집
    <<"K","T"," ","uC704","uC988">>,   \* KT 위즈
    <<"k","t"," ","w","i","z">>,   \* kt wiz
    <<"uD504","uB85C","uC57C","uAD6C">>,   \* 프로야구
    <<"uD504","uB85C","uCD95","uAD6C">>,   \* 프로축구
    <<"N","B","A">>,   \* NBA
    <<"M","L","B">>,   \* MLB
    <<"S","p","i","k","e"," ","W","a","r">>,   \* Spike War
    <<"uC2A4","uD30C","uC774","uD06C"," ","uC6CC">>,   \* 스파이크 워
    <<"uBC30","uAD6C">>,   \* 배구
    <<"v","o","l","l","e","y","b","a","l","l">>,   \* volleyball
    <<"V","uB9AC","uADF8">>,   \* V리그
    <<"K","i","m"," ","Y","o","-","h","a","n","'","s"," ","s","e","r","v","e">>,   \* Kim Yo-han's serve
    <<"uC11C","uBE0C"," ","uB9AC","uC2DC","uBE0C">>   \* 서브 리시브
  >>

\* the list exclude_keywords of generate_traffic_summary
exclude_keywords ==
  <<
    <<"m","a","m","a">>,   \* mama
    <<"a","w","a","r","d","s">>,   \* awards
    <<"uC2DC","uC0C1","uC2DD">>,   \* 시상식
    <<"c","o","n","c","e","r","t">>,   \* concert
    <<"uCF58","uC11C","uD2B8">>,   \* 콘서트
    <<"i","d","o","l">>,   \* idol
    <<"uC544","uC774","uB3CC">>,   \* 아이돌
    <<"uAD11","uACE0">>,   \* 광고
    <<"uCEA0","uD398","uC778">>,   \* 캠페인
    <<"uD504","uB85C","uBAA8","uC158">>,   \* 프로모션
    <<"uC99D","uC2DC">>,   \* 증시
    <<"uCF54","uC2A4","uD53C">>,   \* 코스피
    <<"uCC44","uC6A9">>,   \* 채용
    <<"uBD84","uC591">>,   \* 분양
    <<"i","m","m","i","g","r","a","t","i","o","n"," ","p","r","o","t","e","s","t">>,   \* immigration protest
    <<"h","i","n","d","u"," ","p","r","o","t","e","s","t">>,   \* hindu protest
    <<"f","a","r","m","e","r"," ","p","r","o","t","e","s","t">>   \* farmer protest
  >>

\* the rows of data/news.csv the summary and the digest are made from, as
\* read_csv reads them: the stored feed entries, each without description
\* (an empty cell, read as nan) and with its title as description
DigestRows ==
  LET items == {rss_news_item(e) : e \in {1, 2, 4, 5}}
      described == {[it EXCEPT !.summary = it.title] : it \in items}
  IN  {read_csv_row(to_csv_row(it)) : it \in items \cup described}

DigestLists ==
  UNION {[1..n -> DigestRows] : n \in 0..MaxDigestLen}

\* the messages: the text written for no issue (fetch_news.py line 1957)
\* and the text rendered for no issue (send_slack.py lines 144, 149, 239)
no_issues_summary ==
  Message("no_issues_summary", 0)

no_issues_digest ==
  Message("no_issues_digest", 0)

\* what a chat completion answers: text without markup, text with
\* **bold**, text with blank lines around it, or nothing
AiContents ==
  {Message("ai_plain", 0), Message("ai_markdown", 0),
   Message("ai_padded", 0), Message("", 0)}

\* a provider of the summary: not configured, or configured and answering
\* with status 200, with another status, or not at all
SummaryProviders ==
  {[api_key |-> FALSE, outcome |-> "none", content |-> Message("", 0)]}
    \cup {[api_key |-> TRUE, outcome |-> "ok", content |-> c] : c \in AiContents}
    \cup {[api_key |-> TRUE, outcome |-> o, content |-> Message("", 0)] :
             o \in {"non_200", "raised"}}

\* re.sub(r'\*\*([^*]+)\*\*', r'*\1*', text): Markdown bold becomes Slack bold
re_sub_bold(text) ==
  IF text.message = "ai_markdown" THEN Message("ai_slack", text.n) ELSE text

\* text.strip()
content_strip(text) ==
  IF text.message = "ai_padded" THEN Message("ai_plain", text.n) ELSE text

\* Python truthiness of a text
text_truthy(text) ==
  text.message # ""

\* s[:30]
title_key_of(title) ==
  SubSeq(title, 1, IF Len(title) < 30 THEN Len(title) ELSE 30)

RECURSIVE filtered_news_from(_, _, _)
\* the loop of generate_traffic_summary over traffic_news from position i
filtered_news_from(traffic_news, i, seen_titles) ==
  IF i > Len(traffic_news) THEN << >>
  ELSE LET title == str_lower(traffic_news[i].title)
           title_key == title_key_of(title)
       IN  IF title_key \in seen_titles
             THEN filtered_news_from(traffic_news, i + 1, seen_titles)
           ELSE IF \E k \in DOMAIN exclude_keywords : str_in(exclude_keywords[k], title)
             THEN filtered_news_from(traffic_news, i + 1, seen_titles \cup {title_key})
           ELSE <<traffic_news[i]>>
                  \o filtered_news_from(traffic_news, i + 1,
                                        seen_titles \cup {title_key})

\* generate_traffic_summary(news_list) up to `if not filtered_news`; a nan
\* title has no lower()
summary_filter(news_list) ==
  LET traffic_news == SelectSeq(news_list, LAMBDA n : n.news_type = "traffic_impact")
  IN  IF \E i \in DOMAIN traffic_news : traffic_news[i].title = NaN_text
        THEN [raised |-> TRUE, filtered_news |-> << >>]
      ELSE [raised |-> FALSE,
            filtered_news |-> filtered_news_from(traffic_news, 1, {})]

\* generate_traffic_summary(news_list): the summary_data written to
\* data/summary.json, with the Groq configuration and answer of the call
generate_traffic_summary(news_list, groq) ==
  LET f == summary_filter(news_list)
      n == Len(f.filtered_news)
      data(has_issues, summary) ==
        [raised |-> FALSE, news_count |-> n, has_issues |-> has_issues,
         summary |-> summary]
  IN  IF f.raised
        THEN [raised |-> TRUE, news_count |-> 0, has_issues |-> FALSE,
              summary |-> Message("", 0)]
      ELSE IF n = 0 THEN data(FALSE, no_issues_summary)
      ELSE IF ~groq.api_key THEN data(TRUE, Message("detected", n))
      ELSE IF groq.outcome = "ok" THEN data(TRUE, groq.content)
      ELSE IF groq.outcome = "non_200" THEN data(TRUE, Message("detected_api_error", n))
      ELSE data(TRUE, Message("detected_summary_error", n))

\* the level of the first entry of IMPACT_KEYWORDS with a keyword in text
impact_level_of(text) ==
  IF \E l \in DOMAIN IMPACT_KEYWORDS : any_keyword_in(IMPACT_KEYWORDS[l].keywords, text)
    THEN IMPACT_KEYWORDS[CHOOSE l \in DOMAIN IMPACT_KEYWORDS :
                            /\ any_keyword_in(IMPACT_KEYWORDS[l].keywords, text)
                            /\ \A h \in 1..(l - 1) :
                                 ~any_keyword_in(IMPACT_KEYWORDS[h].keywords, text)].level
  ELSE None

RECURSIVE relevant_from(_, _, _)
\* the loop of filter_relevant_news over news_list from position i
relevant_from(news_list, i, seen_titles) ==
  IF i > Len(news_list) THEN << >>
  ELSE LET title_lower == str_lower(news_list[i].title)
           summary == str_lower(news_list[i].summary)
           text == title_lower \o <<" ">> \o summary
           title_key == title_key_of(title_lower)
           impact_level == impact_level_of(text)
       IN  IF title_key \in seen_titles
             THEN relevant_from(news_list, i + 1, seen_titles)
           ELSE IF any_keyword_in(EXCLUDE_KEYWORDS, text) \/ impact_level = None
             THEN relevant_from(news_list, i + 1, seen_titles \cup {title_key})
           ELSE <<[news |-> news_list[i], impact_level |-> impact_level]>>
                  \o relevant_from(news_list, i + 1, seen_titles \cup {title_key})

\* filter_relevant_news(news_list): the relevant items, high impact first;
\* a nan title or summary has no lower()
filter_relevant_news(news_list) ==
  IF \E i \in DOMAIN news_list :
        news_list[i].title = NaN_text \/ news_list[i].summary = NaN_text
    THEN [raised |-> TRUE, relevant |-> << >>]
  ELSE LET relevant == relevant_from(news_list, 1, {})
       IN  [raised |-> FALSE,
            relevant |->
              SelectSeq(relevant, LAMBDA r : r.impact_level = "high_impact")
                \o SelectSeq(relevant, LAMBDA r : r.impact_level # "high_impact")]

\* traffic_news of get_recent_news: the rows of type traffic_impact
traffic_news_of(rows) ==
  SelectSeq(rows, LAMBDA r : r.news_type = "traffic_impact")

\* relevant_news of create_slack_message for every list of rows
relevant_news_of ==
  {[rows |-> l, relevant_news |-> filter_relevant_news(traffic_news_of(l))] :
      l \in DigestLists}

\* generate_ai_summary(news_list) over the file data/summary.json, with the
\* configuration and the answers of Groq and OpenAI
generate_ai_summary(news_list, file, groq, openai) ==
  LET by_rule ==
        IF news_list # << >>
          THEN IF \E i \in DOMAIN news_list : news_list[i].impact_level = "high_impact"
                 THEN Message("attention", 0)
               ELSE Message("minor", 0)
        ELSE no_issues_digest
      by_openai ==
        IF openai.api_key /\ openai.outcome = "ok" THEN content_strip(openai.content)
        ELSE by_rule
      by_groq ==
        IF groq.api_key /\ groq.outcome = "ok" THEN content_strip(groq.content)
        ELSE by_openai
      by_list ==
        IF news_list = << >> THEN no_issues_digest ELSE by_groq
  IN  IF file.condition = "ok"
        THEN IF file.has_issues /\ text_truthy(file.summary)
               THEN re_sub_bold(file.summary)
             ELSE IF ~file.has_issues THEN no_issues_digest
             ELSE by_list
      ELSE by_list

InitDigest ==
  /\ InitPipeline
  /\ InitCall
  /\ InitNoMerge
  /\ InitNoMap
  /\ InitNoCache
  /\ InitNoAux

\* summary_data of every call of generate_traffic_summary
summary_data_of ==
  {[news_list |-> l, groq |-> g, summary_data |-> generate_traffic_summary(l, g)] :
      l \in DigestLists, g \in SummaryProviders}

\* main ends with generate_traffic_summary over the newest items of the
\* store (lines 1898 and 1906)
WriteSummary ==
  /\ \E call \in summary_data_of :
       \E summary_data \in {call.summary_data} :
          /\ summary_json' =
               IF summary_data.raised THEN summary_json
               ELSE [condition |-> "ok",
                     has_issues |-> summary_data.has_issues,
                     summary |-> summary_data.summary]
          /\ summary_log' =
               [outcome |-> IF summary_data.raised THEN "raised" ELSE "written",
                filtered_news |-> summary_data.news_count,
                has_issues |-> summary_data.has_issues,
                summary |-> summary_data.summary]
  /\ UNCHANGED digest_log
  /\ UNCHANGED <<pipeline_vars, call_vars, merge_vars, mapper_vars, cache_vars>>
  /\ UNCHANGED <<retry_vars, repair_vars, xval_vars>>

\* data/summary.json is deleted, or replaced by text that is no JSON, or by
\* JSON that is no object
DamageSummary ==
  /\ \E condition \in {"absent", "invalid", "no_object"} :
       summary_json' = [NoSummaryFile EXCEPT !.condition = condition]
  /\ UNCHANGED <<summary_log, digest_log>>
  /\ UNCHANGED <<pipeline_vars, call_vars, merge_vars, mapper_vars, cache_vars>>
  /\ UNCHANGED <<retry_vars, repair_vars, xval_vars>>

\* create_slack_message up to ai_summary (lines 263-268) over the rows
\* get_recent_news read
RenderDigest ==
  /\ \E read \in relevant_news_of, groq \in SummaryProviders,
          openai \in SummaryProviders :
       \E relevant_news \in {read.relevant_news} :
          digest_log' =
            IF relevant_news.raised
              THEN [NoDigestLog EXCEPT !.outcome = "raised"]
            ELSE [outcome |-> "rendered",
                  relevant_news |-> Len(relevant_news.relevant),
                  ai_summary |-> generate_ai_summary(relevant_news.relevant,
                                                     summary_json, groq, openai)]
  /\ UNCHANGED <<summary_json, summary_log>>
  /\ UNCHANGED <<pipeline_vars, call_vars, merge_vars, mapper_vars, cache_vars>>
  /\ UNCHANGED <<retry_vars, repair_vars, xval_vars>>

NextDigest ==
  \/ WriteSummary
  \/ DamageSummary
  \/ RenderDigest

SpecDigest ==
  InitDigest /\ [][NextDigest]_vars

\* ------------------------------------------------------------------------
\* Claims about the digest (specification SpecDigest)
\* ------------------------------------------------------------------------
\* C23: the digest is rendered, and whenever no item qualifies its summary
\* is the no-issues message, whatever data/summary.json holds and whichever
\* provider is configured; generate_traffic_summary writes the no-issues
\* message whenever none of its items qualifies.
C23_NoIssuesWhenNothingQualifies ==
  /\ digest_log.outcome # "raised"
  /\ (digest_log.outcome = "rendered" /\ digest_log.relevant_news = 0)
        => digest_log.ai_summary = no_issues_digest
  /\ (summary_log.outcome = "written" /\ summary_log.filtered_news = 0)
        => (~summary_log.has_issues /\ summary_log.summary = no_issues_summary)

\* ------------------------------------------------------------------------
\* Repair of the store (fix_category_groups.py)
\* ------------------------------------------------------------------------
\* the lists of map_to_group_category of fix_category_groups.py
fix_outage_block ==
  {"internet_shutdown", "tech_outage", "power_outage", "censorship", "cyber_attack", "infrastructure_damage"}

fix_social_crisis ==
  {"war_conflict", "terrorism_explosion", "natural_disaster", "protest_strike", "curfew", "pandemic", "economic"}

fix_seasonal_calendar ==
  {"holiday", "school_calendar", "election"}

fix_gaming_competitor ==
  {"gaming", "competitor_game", "social_trend", "sports_event", "major_event"}

\* the characters of every category the model uses
label_text ==
  "internet_shutdown" :> <<"i","n","t","e","r","n","e","t","_","s","h","u","t","d","o","w","n">>
    @@ "tech_outage" :> <<"t","e","c","h","_","o","u","t","a","g","e">>
    @@ "power_outage" :> <<"p","o","w","e","r","_","o","u","t","a","g","e">>
    @@ "censorship" :> <<"c","e","n","s","o","r","s","h","i","p">>
    @@ "cyber_attack" :> <<"c","y","b","e","r","_","a","t","t","a","c","k">>
    @@ "infrastructure_damage" :> <<"i","n","f","r","a","s","t","r","u","c","t","u","r","e","_","d","a","m","a","g","e">>
    @@ "war_conflict" :> <<"w","a","r","_","c","o","n","f","l","i","c","t">>
    @@ "terrorism_explosion" :> <<"t","e","r","r","o","r","i","s","m","_","e","x","p","l","o","s","i","o","n">>
    @@ "natural_disaster" :> <<"n","a","t","u","r","a","l","_","d","i","s","a","s","t","e","r">>
    @@ "protest_strike" :> <<"p","r","o","t","e","s","t","_","s","t","r","i","k","e">>
    @@ "curfew" :> <<"c","u","r","f","e","w">>
    @@ "pandemic" :> <<"p","a","n","d","e","m","i","c">>
    @@ "economic" :> <<"e","c","o","n","o","m","i","c">>
    @@ "holiday" :> <<"h","o","l","i","d","a","y">>
    @@ "school_calendar" :> <<"s","c","h","o","o","l","_","c","a","l","e","n","d","a","r">>
    @@ "election" :> <<"e","l","e","c","t","i","o","n">>
    @@ "gaming" :> <<"g","a","m","i","n","g">>
    @@ "competitor_game" :> <<"c","o","m","p","e","t","i","t","o","r","_","g","a","m","e">>
    @@ "social_trend" :> <<"s","o","c","i","a","l","_","t","r","e","n","d">>
    @@ "sports_event" :> <<"s","p","o","r","t","s","_","e","v","e","n","t">>
    @@ "major_event" :> <<"m","a","j","o","r","_","e","v","e","n","t">>
    @@ "other" :> <<"o","t","h","e","r">>
    @@ "disaster" :> <<"d","i","s","a","s","t","e","r">>
    @@ "conflict" :> <<"c","o","n","f","l","i","c","t">>
    @@ "outage" :> <<"o","u","t","a","g","e">>
    @@ "school" :> <<"s","c","h","o","o","l">>
    @@ "Holiday" :> <<"H","o","l","i","d","a","y">>
    @@ " holiday " :> <<" ","h","o","l","i","d","a","y"," ">>
    @@ "unknown_event" :> <<"u","n","k","n","o","w","n","_","e","v","e","n","t">>

\* Python's whitespace
Whitespace ==
  {" ", "\t", "\n", "\r"}

RECURSIVE str_lstrip(_)
str_lstrip(s) ==
  IF s # << >> /\ Head(s) \in Whitespace THEN str_lstrip(Tail(s)) ELSE s

RECURSIVE str_rstrip(_)
str_rstrip(s) ==
  IF s # << >> /\ s[Len(s)] \in Whitespace
    THEN str_rstrip(SubSeq(s, 1, Len(s) - 1))
  ELSE s

\* s.strip()
str_strip(s) ==
  str_rstrip(str_lstrip(s))

\* map_to_group_category of fix_category_groups.py: None, '' and nan map to
\* other; any other value is stripped and lower-cased before the lookup
fix_map_to_group_category(detail_category) ==
  IF falsy(detail_category) \/ detail_category = NaN THEN "other"
  ELSE LET category == str_lower(str_strip(label_text[detail_category]))
           listed(list) == \E c \in list : label_text[c] = category
       IN  IF listed(fix_outage_block) THEN "outage_block"
           ELSE IF listed(fix_social_crisis) THEN "social_crisis"
           ELSE IF listed(fix_seasonal_calendar) THEN "seasonal_calendar"
           ELSE IF listed(fix_gaming_competitor) THEN "gaming_competitor"
           ELSE "other"

\* the loop of main, with a fault: every row is mapped again
fix_category_groups_refill(csv, condition) ==
  IF condition = "missing" THEN [outcome |-> "not_found", csv |-> csv]
  ELSE IF condition # "ok" THEN [outcome |-> "raised", csv |-> csv]
  ELSE LET df == [i \in 1..Len(csv) |-> read_csv_row(csv[i])]
           fixed == [i \in 1..Len(df) |->
                       [df[i] EXCEPT !.category_group =
                                        fix_map_to_group_category(df[i].category)]]
       IN  [outcome |-> "updated",
            csv |-> [i \in 1..Len(fixed) |-> to_csv_row(fixed[i])]]

\* main of fix_category_groups.py over the store: nothing without the file;
\* read_csv raises on a file it cannot read; else every row whose
\* category_group is nan gets the group of its category, and the rows are
\* written back in their order
fix_category_groups_main(csv, condition) ==
  IF condition = "missing" THEN [outcome |-> "not_found", csv |-> csv]
  ELSE IF condition # "ok" THEN [outcome |-> "raised", csv |-> csv]
  ELSE LET df == [i \in 1..Len(csv) |-> read_csv_row(csv[i])]
           fixed == [i \in 1..Len(df) |->
                       IF df[i].category_group = NaN \/ df[i].category_group = ""
                         THEN [df[i] EXCEPT !.category_group =
                                              fix_map_to_group_category(df[i].category)]
                       ELSE df[i]]
       IN  [outcome |-> "updated",
            csv |-> [i \in 1..Len(fixed) |-> to_csv_row(fixed[i])]]

\* rows of the store as earlier versions and the pipeline wrote them: the
\* category in the table, in another case, unknown or empty; the group
\* empty, or set (to the group of the category or to another one)
RepairRows ==
  {[to_csv_row(rss_news_item(1)) EXCEPT !.category = c, !.category_group = g] :
      c \in {"holiday", "Holiday", "unknown_event", ""},
      g \in {"", "other", "seasonal_calendar"}}

InitRepair ==
  /\ InitCall
  /\ InitNoMerge
  /\ InitNoMap
  /\ InitNoCache
  /\ InitNoRetry
  /\ InitNoDigest
  /\ InitNoXval
  /\ news_csv \in UNION {[1..n -> RepairRows] : n \in 0..MaxRepairRows}
  /\ files \in [store : StoreConditions, cache : {"absent"}]
  /\ files.store = "missing" => news_csv = << >>
  /\ news_cache = << >>
  /\ fetched = 0
  /\ env = [groq_key |-> FALSE, use_paid |-> FALSE]
  /\ unique_new_news = << >>
  /\ returned = << >>
  /\ judged = {}
  /\ run_log = NoLog
  /\ repair_log = NoRepairLog

\* one run of fix_category_groups.py
FixCategoryGroups ==
  /\ repair_log.count < MaxRepairs
  /\ \E out \in {fix_category_groups_main(news_csv, files.store)} :
       /\ news_csv' = out.csv
       /\ repair_log' =
            [count |-> repair_log.count + 1,
             outcome |-> out.outcome,
             before |-> IF repair_log.count = 0 THEN news_csv ELSE repair_log.before,
             first |-> IF repair_log.count = 0 THEN out.csv ELSE repair_log.first]
  /\ UNCHANGED <<news_cache, files, fetched, env, unique_new_news, returned, judged,
                 run_log>>
  /\ UNCHANGED <<call_vars, merge_vars, mapper_vars, cache_vars>>
  /\ UNCHANGED <<retry_vars, digest_vars, xval_vars>>

NextRepair ==
  FixCategoryGroups

SpecRepair ==
  InitRepair /\ [][NextRepair]_vars

\* ------------------------------------------------------------------------
\* Claims about the repair (specification SpecRepair)
\* ------------------------------------------------------------------------
\* C24: after the repair the store holds the rows it held before, in their
\* order; a row whose category_group was empty has the group of its category
\* and is otherwise as it was, every other row is as it was; the second
\* repair leaves the store as the first left it.
C24_RepairFillsEmptyGroupsOnly ==
  (repair_log.count > 0 /\ repair_log.outcome = "updated")
     => /\ Len(news_csv) = Len(repair_log.before)
        /\ \A i \in DOMAIN repair_log.before :
              news_csv[i] =
                IF repair_log.before[i].category_group = ""
                  THEN [repair_log.before[i] EXCEPT
                          !.category_group =
                             fix_map_to_group_category(
                               read_csv_label(repair_log.before[i].category))]
                ELSE repair_log.before[i]
        /\ news_csv = repair_log.first

\* repaired twice: a row with category Holiday and no group got its group,
\* a row with group other and category holiday kept its group
C24_Witness ==
  /\ repair_log.count = 2
  /\ repair_log.outcome = "updated"
  /\ Len(repair_log.before) = 2
  /\ repair_log.before[1].category = "Holiday"
  /\ repair_log.before[1].category_group = ""
  /\ news_csv[1].category_group = "seasonal_calendar"
  /\ repair_log.before[2].category = "holiday"
  /\ news_csv[2].category_group = "other"

\* ------------------------------------------------------------------------
\* History of the store: runs of main, clean_news.py, fix_category_groups.py
\* ------------------------------------------------------------------------
\* module-level lists of clean_news.py
clean_EXCLUDE_KEYWORDS ==
  <<
    <<"uC790","uC8FC","uD3EC">>,   \* 자주포
    <<"uC804","uCC28">>,   \* 전차
    <<"uBBF8","uC0AC","uC77C">>,   \* 미사일
    <<"uBB34","uAE30">>,   \* 무기
    <<"uAD70","uC218">>,   \* 군수
    <<"uBC29","uC0B0">>,   \* 방산
    <<"uAD6D","uBC29">>,   \* 국방
    <<"K","9">>,   \* K9
    <<"K","2">>,   \* K2
    <<"uD55C","uD654","uC5D0","uC5B4","uB85C">>,   \* 한화에어로
    <<"uD55C","uD654","uB514","uD39C","uC2A4">>,   \* 한화디펜스
    <<"d","e","f","e","n","s","e"," ","c","o","n","t","r","a","c","t">>,   \* defense contract
    <<"uBC29","uC704","uC0AC","uC5C5">>,   \* 방위사업
    <<"m","i","l","i","t","a","r","y"," ","c","o","n","t","r","a","c","t">>,   \* military contract
    <<"a","r","m","s"," ","d","e","a","l">>,   \* arms deal
    <<"D","M","Z">>,   \* DMZ
    <<"K","o","r","e","a","n"," ","W","a","r"," ","s","o","l","d","i","e","r","s">>,   \* Korean War soldiers
    <<"uC720","uD574"," ","uBC1C","uAD74">>,   \* 유해 발굴
    <<"uC804","uC0AC","uC790">>,   \* 전사자
    <<"M","A","M","A">>,   \* MAMA
    <<"A","w","a","r","d","s">>,   \* Awards
    <<"uC2DC","uC0C1","uC2DD">>,   \* 시상식
    <<"m","o","u","r","n","i","n","g">>,   \* mourning
    <<"H","o","n","g"," ","K","o","n","g"," ","t","r","a","g","e","d","y">>,   \* Hong Kong tragedy
    <<"K","-","p","o","p">>,   \* K-pop
    <<"i","d","o","l">>,   \* idol
    <<"uC544","uC774","uB3CC">>,   \* 아이돌
    <<"uAC78","uADF8","uB8F9">>,   \* 걸그룹
    <<"uBCF4","uC774","uADF8","uB8F9">>,   \* 보이그룹
    <<"uCF58","uC11C","uD2B8">>,   \* 콘서트
    <<"uC568","uBC94">>,   \* 앨범
    <<"uD32C","uBBF8","uD305">>,   \* 팬미팅
    <<"uBBA4","uC9C1","uBE44","uB514","uC624">>,   \* 뮤직비디오
    <<"c","o","n","c","e","r","t">>,   \* concert
    <<"a","l","b","u","m">>,   \* album
    <<"f","a","n"," ","m","e","e","t","i","n","g">>,   \* fan meeting
    <<"uB4DC","uB77C","uB9C8">>,   \* 드라마
    <<"uC608","uB2A5">>,   \* 예능
    <<"uC2DC","uCCAD","uB960">>,   \* 시청률
    <<"uC608","uB2A5"," ","uD504","uB85C","uADF8","uB7A8">>,   \* 예능 프로그램
    <<"uB9AC","uC5BC","uB9AC","uD2F0","uC1FC">>,   \* 리얼리티쇼
    <<"uB9AC","uC5BC","uB9AC","uD2F0"," ","uC1FC">>,   \* 리얼리티 쇼
    <<"O","T","T">>,   \* OTT
    <<"uB137","uD50C","uB9AD","uC2A4">>,   \* 넷플릭스
    <<"uB514","uC988","uB2C8","+">>,   \* 디즈니+
    <<"uD2F0","uBE59">>,   \* 티빙
    <<"uC6E8","uC774","uBE0C">>,   \* 웨이브
    <<"uCFE0","uD321","uD50C","uB808","uC774">>,   \* 쿠팡플레이
    <<"N","e","t","f","l","i","x">>,   \* Netflix
    <<"D","i","s","n","e","y","+">>,   \* Disney+
    <<"O","S","T">>,   \* OST
    <<"uC5F4","uC560","uC124">>,   \* 열애설
    <<"uACB0","uBCC4","uC124">>,   \* 결별설
    <<"uC5F0","uC608","uACC4">>,   \* 연예계
    <<"uC5F0","uC608","uC778"," ","uCEE4","uD50C">>,   \* 연예인 커플
    <<"uC2A4","uCE94","uB4E4">>,   \* 스캔들
    <<"uC601","uD654","uC81C">>,   \* 영화제
    <<"uB808","uB4DC","uCE74","uD3AB">>,   \* 레드카펫
    <<"c","e","l","e","b","r","i","t","y">>,   \* celebrity
    <<"e","n","t","e","r","t","a","i","n","m","e","n","t"," ","n","e","w","s">>,   \* entertainment news
    <<"s","h","o","w","b","i","z">>,   \* showbiz
    <<"i","m","m","i","g","r","a","t","i","o","n"," ","p","r","o","t","e","s","t">>,   \* immigration protest
    <<"h","i","n","d","u"," ","p","r","o","t","e","s","t">>,   \* hindu protest
    <<"f","a","r","m","e","r"," ","p","r","o","t","e","s","t">>,   \* farmer protest
    <<"P","P","P">>,   \* PPP
    <<"uAD6D","uBBFC","uC758","uD798">>,   \* 국민의힘
    <<"uB354","uBD88","uC5B4","uBBFC","uC8FC","uB2F9">>,   \* 더불어민주당
    <<"uBBFC","uC8FC","uB2F9">>,   \* 민주당
    <<"uAD6D","uD68C">>,   \* 국회
    <<"c","o","u","r","t"," ","h","e","a","r","i","n","g">>,   \* court hearing
    <<"uBC95","uC6D0">>,   \* 법원
    <<"uC7AC","uD310">>,   \* 재판
    <<"uD0C4","uD575">>,   \* 탄핵
    <<"uB300","uD1B5","uB839">>,   \* 대통령
    <<"C","h","o","o"," ","K","y","u","n","g","-","h","o">>,   \* Choo Kyung-ho
    <<"uCD94","uACBD","uD638">>,   \* 추경호
    <<"uC774","uC7AC","uBA85">>,   \* 이재명
    <<"uC724","uC11D","uC5F4">>,   \* 윤석열
    <<"uD55C","uB3D9","uD6C8">>,   \* 한동훈
    <<"N","a","t","i","o","n","a","l"," ","A","s","s","e","m","b","l","y">>,   \* National Assembly
    <<"i","m","p","e","a","c","h","m","e","n","t">>,   \* impeachment
    <<"l","e","g","i","s","l","a","t","u","r","e">>,   \* legislature
    <<"uD55C","uAD6D">>,   \* 한국
    <<"S","o","u","t","h"," ","K","o","r","e","a">>,   \* South Korea
    <<"K","o","r","e","a">>,   \* Korea
    <<"uBD81","uD55C">>,   \* 북한
    <<"N","o","r","t","h"," ","K","o","r","e","a">>,   \* North Korea
    <<"uC11C","uC6B8">>,   \* 서울
    <<"S","e","o","u","l">>,   \* Seoul
    <<"uBD80","uC0B0">>,   \* 부산
    <<"uB300","uAD6C">>,   \* 대구
    <<"uC778","uCC9C">>,   \* 인천
    <<"uB124","uC774","uD2B8">>,   \* 네이트
    <<"n","a","t","e",".","c","o","m">>,   \* nate.com
    <<"e","s","p","o","r","t","s">>,   \* esports
    <<"e","-","s","p","o","r","t","s">>,   \* e-sports
    <<"e","uC2A4","uD3EC","uCE20">>,   \* e스포츠
    <<"uC774","uC2A4","uD3EC","uCE20">>,   \* 이스포츠
    <<"P","M","G","C">>,   \* PMGC
    <<"P","M","P","L">>,   \* PMPL
    <<"P","C","S">>,   \* PCS
    <<"P","G","C">>,   \* PGC
    <<"t","o","u","r","n","a","m","e","n","t">>,   \* tournament
    <<"uD1A0","uB108","uBA3C","uD2B8">>,   \* 토너먼트
    <<"uB300","uD68C">>,   \* 대회
    <<"c","h","a","m","p","i","o","n","s","h","i","p">>,   \* championship
    <<"l","e","a","g","u","e">>,   \* league
    <<"uB9AC","uADF8">>,   \* 리그
    <<"p","r","o"," ","p","l","a","y","e","r">>,   \* pro player
    <<"uD504","uB85C","uC120","uC218">>,   \* 프로선수
    <<"p","r","o"," ","t","e","a","m">>,   \* pro team
    <<"uD504","uB85C","uD300">>,   \* 프로팀
    <<"K","T"," ","uC704","uC988">>,   \* KT 위즈
    <<"k","t"," ","w","i","z">>,   \* kt wiz
    <<"K","T","uC704","uC988">>,   \* KT위즈
    <<"uAD6C","uC6D0","uD22C","uC218">>,   \* 구원투수
    <<"uC2A4","uD1A0","uBE0C","uB9AC","uADF8">>,   \* 스토브리그
    <<"W","A","R"," ","uC804","uCCB4">>,   \* WAR 전체
    <<"x","p","o","r","t","s","n","e","w","s">>,   \* xportsnews
    <<"uD504","uB85C","uCD95","uAD6C">>,   \* 프로축구
    <<"uD504","uB85C","uC57C","uAD6C">>,   \* 프로야구
    <<"N","B","A">>,   \* NBA
    <<"M","L","B">>,   \* MLB
    <<"uC57C","uAD6C"," ","uACB0","uACFC">>,   \* 야구 결과
    <<"uCD95","uAD6C"," ","uACB0","uACFC">>,   \* 축구 결과
    <<"uACBD","uAE30"," ","uACB0","uACFC">>,   \* 경기 결과
    <<"S","p","i","k","e"," ","W","a","r">>,   \* Spike War
    <<"uC2A4","uD30C","uC774","uD06C"," ","uC6CC">>,   \* 스파이크 워
    <<"uBC30","uAD6C">>,   \* 배구
    <<"v","o","l","l","e","y","b","a","l","l">>,   \* volleyball
    <<"uBC1C","uB9AC","uBCFC">>,   \* 발리볼
    <<"K","i","m"," ","Y","o","-","h","a","n","'","s"," ","s","e","r","v","e">>,   \* Kim Yo-han's serve
    <<"uC11C","uBE0C"," ","uB9AC","uC2DC","uBE0C">>,   \* 서브 리시브
    <<"r","e","c","e","i","v","e"," ","l","o","g">>,   \* receive log
    <<"V","uB9AC","uADF8">>,   \* V리그
    <<"V","-","L","e","a","g","u","e">>,   \* V-League
    <<"C","h","i","p"," ","W","a","r">>,   \* Chip War
    <<"S","K","uD558","uC774","uB2C9","uC2A4">>,   \* SK하이닉스
    <<"A","I"," ","uAC70","uD488","uB860">>,   \* AI 거품론
    <<"uAD11","uACE0">>,   \* 광고
    <<"uD611","uCC2C">>,   \* 협찬
    <<"uB9C8","uCF00","uD305">>,   \* 마케팅
    <<"uBCF4","uB3C4","uC790","uB8CC">>,   \* 보도자료
    <<"P","P","L">>,   \* PPL
    <<"uCEA0","uD398","uC778">>,   \* 캠페인
    <<"c","a","m","p","a","i","g","n">>,   \* campaign
    <<"uD504","uB85C","uBAA8","uC158">>,   \* 프로모션
    <<"p","r","o","m","o","t","i","o","n">>,   \* promotion
    <<"uD31D","uC5C5">>,   \* 팝업
    <<"p","o","p","u","p">>,   \* popup
    <<"uCF5C","uB77C","uBCF4">>,   \* 콜라보
    <<"c","o","l","l","a","b","o","r","a","t","i","o","n">>,   \* collaboration
    <<"uC2E0","uC81C","uD488">>,   \* 신제품
    <<"s","p","o","n","s","o","r","e","d">>,   \* sponsored
    <<"s","p","o","n","s","o","r","s","h","i","p">>,   \* sponsorship
    <<"a","f","f","i","l","i","a","t","e">>,   \* affiliate
    <<"uBE0C","uB79C","uB4DC"," ","uCEA0","uD398","uC778">>,   \* 브랜드 캠페인
    <<"uBE0C","uB79C","uB4DC"," ","uCF5C","uB77C","uBCF4">>,   \* 브랜드 콜라보
    <<"b","r","a","n","d","e","d"," ","c","o","n","t","e","n","t">>,   \* branded content
    <<"uC99D","uC2DC">>,   \* 증시
    <<"uCF54","uC2A4","uD53C">>,   \* 코스피
    <<"uCF54","uC2A4","uB2E5">>,   \* 코스닥
    <<"uB098","uC2A4","uB2E5">>,   \* 나스닥
    <<"uC7A5","uC911">>,   \* 장중
    <<"uC7A5"," ","uB9C8","uAC10">>,   \* 장 마감
    <<"uC7A5"," ","uCD08","uBC18">>,   \* 장 초반
    <<"uB9C8","uAC10"," ","uC9C0","uC218">>,   \* 마감 지수
    <<"uC8FC","uAC00">>,   \* 주가
    <<"uC8FC","uC2DD","uC2DC","uC7A5">>,   \* 주식시장
    <<"uD22C","uC790","uC790">>,   \* 투자자
    <<"uAE30","uAD00","uD22C","uC790","uC790">>,   \* 기관투자자
    <<"uC99D","uAD8C","uC0AC">>,   \* 증권사
    <<"uC99D","uAD8C","uAC00">>,   \* 증권가
    <<"uB9AC","uD3EC","uD2B8">>,   \* 리포트
    <<"uB9AC","uC11C","uCE58","uC13C","uD130">>,   \* 리서치센터
    <<"uC2E4","uC801","uBC1C","uD45C">>,   \* 실적발표
    <<"uBD84","uAE30"," ","uC2E4","uC801">>,   \* 분기 실적
    <<"uC5F0","uAC04"," ","uC2E4","uC801">>,   \* 연간 실적
    <<"e","a","r","n","i","n","g","s">>,   \* earnings
    <<"q","u","a","r","t","e","r","l","y"," ","e","a","r","n","i","n","g","s">>,   \* quarterly earnings
    <<"a","n","n","u","a","l"," ","e","a","r","n","i","n","g","s">>,   \* annual earnings
    <<"I","R">>,   \* IR
    <<"c","o","n","f","e","r","e","n","c","e"," ","c","a","l","l">>,   \* conference call
    <<"uBC30","uB2F9">>,   \* 배당
    <<"d","i","v","i","d","e","n","d">>,   \* dividend
    <<"uD380","uB4DC">>,   \* 펀드
    <<"E","T","F">>,   \* ETF
    <<"uB9AC","uCE20">>,   \* 리츠
    <<"uC7AC","uD14C","uD06C">>,   \* 재테크
    <<"s","t","o","c","k"," ","p","r","i","c","e">>,   \* stock price
    <<"i","n","v","e","s","t","o","r">>,   \* investor
    <<"I","P","O">>,   \* IPO
    <<"uACF5","uBAA8","uC8FC">>,   \* 공모주
    <<"uCC44","uC6A9">>,   \* 채용
    <<"uACF5","uCC44">>,   \* 공채
    <<"uC218","uC2DC","uCC44","uC6A9">>,   \* 수시채용
    <<"uCC44","uC6A9"," ","uACF5","uACE0">>,   \* 채용 공고
    <<"uC2E0","uC785","uC0AC","uC6D0">>,   \* 신입사원
    <<"uACBD","uB825","uC9C1">>,   \* 경력직
    <<"uC778","uC7AC"," ","uCC44","uC6A9">>,   \* 인재 채용
    <<"uAD6C","uC778">>,   \* 구인
    <<"uAD6C","uC778"," ","uACF5","uACE0">>,   \* 구인 공고
    <<"j","o","b"," ","o","p","e","n","i","n","g">>,   \* job opening
    <<"h","i","r","i","n","g">>,   \* hiring
    <<"r","e","c","r","u","i","t","m","e","n","t">>,   \* recruitment
    <<"c","a","r","e","e","r"," ","f","a","i","r">>,   \* career fair
    <<"uCC44","uC6A9"," ","uC124","uBA85","uD68C">>,   \* 채용 설명회
    <<"uC778","uD134"," ","uBAA8","uC9D1">>,   \* 인턴 모집
    <<"uACF5","uBAA8","uC804">>,   \* 공모전
    <<"uBD84","uC591">>,   \* 분양
    <<"uCCAD","uC57D">>,   \* 청약
    <<"uC785","uC8FC","uC790"," ","uBAA8","uC9D1">>,   \* 입주자 모집
    <<"uC804","uC138">>,   \* 전세
    <<"uC6D4","uC138">>,   \* 월세
    <<"uB9E4","uB9E4">>,   \* 매매
    <<"uC804","uC6D4","uC138">>,   \* 전월세
    <<"uC804","uC138","uAC00">>,   \* 전세가
    <<"uB9E4","uB9E4","uAC00">>,   \* 매매가
    <<"uC9D1","uAC12">>,   \* 집값
    <<"uC544","uD30C","uD2B8"," ","uB2E8","uC9C0">>,   \* 아파트 단지
    <<"uC624","uD53C","uC2A4","uD154">>,   \* 오피스텔
    <<"uC0C1","uAC00"," ","uBD84","uC591">>,   \* 상가 분양
    <<"uC624","uD53C","uC2A4"," ","uC784","uB300">>,   \* 오피스 임대
    <<"uBD80","uB3D9","uC0B0"," ","uC2DC","uC7A5">>,   \* 부동산 시장
    <<"uBD80","uB3D9","uC0B0"," ","uADDC","uC81C">>,   \* 부동산 규제
    <<"r","e","a","l"," ","e","s","t","a","t","e">>,   \* real estate
    <<"h","o","u","s","i","n","g"," ","m","a","r","k","e","t">>,   \* housing market
    <<"uC624","uB298","uC758"," ","uB0A0","uC528">>,   \* 오늘의 날씨
    <<"uC8FC","uAC04"," ","uB0A0","uC528">>,   \* 주간 날씨
    <<"uAE30","uC0C1","uCCAD">>,   \* 기상청
    <<"uAE30","uC628">>,   \* 기온
    <<"uBBF8","uC138","uBA3C","uC9C0">>,   \* 미세먼지
    <<"uCCB4","uAC10","uC628","uB3C4">>,   \* 체감온도
    <<"w","e","a","t","h","e","r"," ","f","o","r","e","c","a","s","t">>,   \* weather forecast
    <<"w","e","e","k","l","y"," ","f","o","r","e","c","a","s","t">>,   \* weekly forecast
    <<"uB808","uC2DC","uD53C">>,   \* 레시피
    <<"uC694","uB9AC","uBC95">>,   \* 요리법
    <<"uC9D1","uBC25">>,   \* 집밥
    <<"uAC04","uD3B8","uC2DD">>,   \* 간편식
    <<"uB9DB","uC9D1"," ","uD0D0","uBC29">>,   \* 맛집 탐방
    <<"uC2DD","uB2F9"," ","uB9AC","uBDF0">>,   \* 식당 리뷰
    <<"uCE74","uD398"," ","uCD94","uCC9C">>,   \* 카페 추천
    <<"r","e","s","t","a","u","r","a","n","t"," ","r","e","v","i","e","w">>,   \* restaurant review
    <<"f","o","o","d"," ","b","l","o","g">>,   \* food blog
    <<"uB9DB","uC9D1">>,   \* 맛집
    <<"r","e","s","t","a","u","r","a","n","t">>,   \* restaurant
    <<"uC5EC","uD589">>,   \* 여행
    <<"t","r","a","v","e","l"," ","t","i","p">>,   \* travel tip
    <<"uB358","uD0A8">>,   \* 던킨
    <<"uC2A4","uD0C0","uBC85","uC2A4">>,   \* 스타벅스
    <<"uB9E5","uB3C4","uB0A0","uB4DC">>,   \* 맥도날드
    <<"uBC84","uAC70","uD0B9">>,   \* 버거킹
    <<"uC5E0","uC564","uC5E0">>,   \* 엠앤엠
    <<"M","&","M">>,   \* M&M
    <<"uCD08","uCF5C","uB9BF">>,   \* 초콜릿
    <<"uCEE4","uD53C">>,   \* 커피
    <<"c","o","f","f","e","e">>,   \* coffee
    <<"uC74C","uB8CC">>,   \* 음료
    <<"uD328","uC158">>,   \* 패션
    <<"f","a","s","h","i","o","n">>,   \* fashion
    <<"uBDF0","uD2F0">>,   \* 뷰티
    <<"b","e","a","u","t","y">>,   \* beauty
    <<"uD654","uC7A5","uD488">>,   \* 화장품
    <<"c","o","s","m","e","t","i","c">>,   \* cosmetic
    <<"uC758","uB958">>,   \* 의류
    <<"c","l","o","t","h","i","n","g">>,   \* clothing
    <<"uC1FC","uD551">>,   \* 쇼핑
    <<"s","h","o","p","p","i","n","g">>,   \* shopping
    <<"uB300","uD1B5","uB839">>,   \* 대통령
    <<"uAD6D","uD68C">>,   \* 국회
    <<"uC678","uAD50","uBD80">>,   \* 외교부
    <<"uC7A5","uAD00">>,   \* 장관
    <<"uC815","uC0C1","uD68C","uB2F4">>   \* 정상회담
  >>

GAMING_REQUIRED ==
  <<
    <<"p","u","b","g">>,   \* pubg
    <<"uD38D","uC9C0">>,   \* 펍지
    <<"uBC30","uD2C0","uADF8","uB77C","uC6B4","uB4DC">>,   \* 배틀그라운드
    <<"k","r","a","f","t","o","n">>,   \* krafton
    <<"uD06C","uB798","uD504","uD1A4">>,   \* 크래프톤
    <<"b","g","m","i">>,   \* bgmi
    <<"p","m","g","c">>,   \* pmgc
    <<"p","m","p","l">>,   \* pmpl
    <<"p","c","s">>,   \* pcs
    <<"p","g","c">>,   \* pgc
    <<"f","p","s">>,   \* fps
    <<"f","p","s","uAC8C","uC784">>,   \* fps게임
    <<"f","p","s"," ","uAC8C","uC784">>,   \* fps 게임
    <<"uC288","uD130">>,   \* 슈터
    <<"s","h","o","o","t","e","r">>,   \* shooter
    <<"uBC30","uD2C0","uB85C","uC584">>,   \* 배틀로얄
    <<"b","a","t","t","l","e"," ","r","o","y","a","l","e">>,   \* battle royale
    <<"uBC30","uD2C0"," ","uB85C","uC584">>,   \* 배틀 로얄
    <<"f","r","e","e"," ","f","i","r","e">>,   \* free fire
    <<"uD504","uB9AC","uD30C","uC774","uC5B4">>,   \* 프리파이어
    <<"uAC00","uB808","uB098">>,   \* 가레나
    <<"g","a","r","e","n","a">>,   \* garena
    <<"c","a","l","l"," ","o","f"," ","d","u","t","y"," ","m","o","b","i","l","e">>,   \* call of duty mobile
    <<"c","o","d"," ","m","o","b","i","l","e">>,   \* cod mobile
    <<"uCF5C","uC624","uBE0C","uB4C0","uD2F0"," ","uBAA8","uBC14","uC77C">>,   \* 콜오브듀티 모바일
    <<"a","p","e","x"," ","l","e","g","e","n","d","s"," ","m","o","b","i","l","e">>,   \* apex legends mobile
    <<"uC5D0","uC774","uD399","uC2A4"," ","uB808","uC804","uB4DC"," ","uBAA8","uBC14","uC77C">>,   \* 에이펙스 레전드 모바일
    <<"f","o","r","t","n","i","t","e"," ","m","o","b","i","l","e">>,   \* fortnite mobile
    <<"uD3EC","uD2B8","uB098","uC774","uD2B8"," ","uBAA8","uBC14","uC77C">>,   \* 포트나이트 모바일
    <<"r","o","b","l","o","x">>,   \* roblox
    <<"uB85C","uBE14","uB85D","uC2A4">>,   \* 로블록스
    <<"f","o","r","t","n","i","t","e">>,   \* fortnite
    <<"uD3EC","uD2B8","uB098","uC774","uD2B8">>,   \* 포트나이트
    <<"a","p","e","x"," ","l","e","g","e","n","d","s">>,   \* apex legends
    <<"uC5D0","uC774","uD399","uC2A4"," ","uB808","uC804","uB4DC">>,   \* 에이펙스 레전드
    <<"uC5D0","uC774","uD399","uC2A4">>,   \* 에이펙스
    <<"m","o","b","i","l","e"," ","e","s","p","o","r","t","s">>,   \* mobile esports
    <<"uBAA8","uBC14","uC77C"," ","e","uC2A4","uD3EC","uCE20">>,   \* 모바일 e스포츠
    <<"uBAA8","uBC14","uC77C"," ","uC774","uC2A4","uD3EC","uCE20">>   \* 모바일 이스포츠
  >>

TRAFFIC_REQUIRED ==
  <<
    <<"uC778","uD130","uB137"," ","uCC28","uB2E8">>,   \* 인터넷 차단
    <<"i","n","t","e","r","n","e","t"," ","s","h","u","t","d","o","w","n">>,   \* internet shutdown
    <<"uD1B5","uC2E0"," ","uC7A5","uC560">>,   \* 통신 장애
    <<"n","e","t","w","o","r","k"," ","o","u","t","a","g","e">>,   \* network outage
    <<"uC815","uC804">>,   \* 정전
    <<"p","o","w","e","r"," ","o","u","t","a","g","e">>,   \* power outage
    <<"uC9C0","uC9C4">>,   \* 지진
    <<"e","a","r","t","h","q","u","a","k","e">>,   \* earthquake
    <<"uD0DC","uD48D">>,   \* 태풍
    <<"t","y","p","h","o","o","n">>,   \* typhoon
    <<"uD64D","uC218">>,   \* 홍수
    <<"f","l","o","o","d">>,   \* flood
    <<"uC804","uC7C1">>,   \* 전쟁
    <<"w","a","r">>,   \* war
    <<"uD3ED","uBC1C">>,   \* 폭발
    <<"e","x","p","l","o","s","i","o","n">>,   \* explosion
    <<"uD14C","uB7EC">>,   \* 테러
    <<"uACF5","uD734","uC77C">>,   \* 공휴일
    <<"h","o","l","i","d","a","y">>,   \* holiday
    <<"uC5F0","uD734">>,   \* 연휴
    <<"uBA85","uC808">>,   \* 명절
    <<"uBC29","uD559">>,   \* 방학
    <<"uC2DC","uD5D8">>,   \* 시험
    <<"uC2DC","uC704">>,   \* 시위
    <<"p","r","o","t","e","s","t">>,   \* protest
    <<"uD3ED","uB3D9">>,   \* 폭동
    <<"r","i","o","t">>,   \* riot
    <<"uACC4","uC5C4">>,   \* 계엄
    <<"c","u","r","f","e","w">>   \* curfew
  >>

\* str(v) of a text cell: nan prints as 'nan'
str_of_text(v) ==
  IF v = NaN_text THEN <<"n","a","n">> ELSE v

\* str(v) of a label cell
str_of_label(v) ==
  IF v = NaN THEN "nan" ELSE v

\* f"{title} {summary}".lower()
clean_text(title, summary) ==
  str_lower(title \o <<" ">> \o summary)

should_exclude(title, summary) ==
  any_keyword_in(clean_EXCLUDE_KEYWORDS, clean_text(title, summary))

is_valid_gaming_news(title, summary) ==
  any_keyword_in(GAMING_REQUIRED, clean_text(title, summary))

is_valid_traffic_news(title, summary) ==
  any_keyword_in(TRAFFIC_REQUIRED, clean_text(title, summary))

\* one pass of the loop of clean_news (lines 207-234): the row as it is left
\* in the frame, or its removal
clean_row(row) ==
  LET title == str_of_text(row.title)
      summary == str_of_text(row.summary)
      news_type == str_of_label(row.news_type)
      kept == [remove |-> FALSE, row |-> row]
      removed == [remove |-> TRUE, row |-> row]
      retyped(t) == [remove |-> FALSE, row |-> [row EXCEPT !.news_type = t]]
  IN  IF should_exclude(title, summary) THEN removed
      ELSE IF news_type = "gaming" /\ ~is_valid_gaming_news(title, summary)
        THEN IF is_valid_traffic_news(title, summary) THEN retyped("traffic_impact")
             ELSE removed
      ELSE IF news_type \in {"", "nan"}
        THEN IF is_valid_gaming_news(title, summary) THEN retyped("gaming")
             ELSE IF is_valid_traffic_news(title, summary) THEN retyped("traffic_impact")
             ELSE removed
      ELSE kept

\* clean_news() over the store: nothing without the file; read_csv raises on
\* a file it cannot read; else the rows left are written back in their order
clean_news(csv, condition) ==
  IF condition # "ok" THEN csv
  ELSE LET df == [i \in 1..Len(csv) |-> clean_row(read_csv_row(csv[i]))]
           left == SelectSeq(df, LAMBDA r : ~r.remove)
       IN  [i \in 1..Len(left) |-> to_csv_row(left[i].row)]

\* the store before the first run: none, or one row written before the
\* store had the column category_group
LegacyStores ==
  {<< >>} \cup {<<to_csv_row(rss_news_item(e))>> : e \in {2, 4}}

InitHistory ==
  /\ InitCall
  /\ InitNoMerge
  /\ InitNoMap
  /\ InitNoCache
  /\ InitNoAux
  /\ news_csv \in LegacyStores
  /\ files = [store |-> IF news_csv = << >> THEN "missing" ELSE "ok",
              cache |-> "absent"]
  /\ news_cache = << >>
  /\ fetched = 0
  /\ env = [groq_key |-> FALSE, use_paid |-> FALSE]
  /\ unique_new_news = << >>
  /\ returned = << >>
  /\ judged = {}
  /\ run_log = NoLog

\* one run of main over what the sources answer, the store as the cleaning
\* and the repair left it
RunStored ==
  /\ \E k1 \in 0..MaxBatch :
     \E k2 \in 0..(MaxBatch - k1) :
     \E k3 \in 0..(MaxBatch - k1 - k2) :
     \E k4 \in 0..(MaxBatch - k1 - k2 - k3) :
       /\ fetched + k1 + k2 + k3 + k4 <= MaxHistoryFetched
       /\ \E ds \in [1..k1 -> DeepSearchResponses],
             tr \in [1..k2 -> TrendingResponses],
             nv \in [1..k3 -> NaverResponses],
             searches \in [1..k4 -> RssSearches],
             deepsearch_key \in {k1 + k2 > 0},
             naver_credentials \in {k3 > 0},
             groq_key \in BOOLEAN :
            RunOver(ds, tr, nv, searches, deepsearch_key, naver_credentials,
                    groq_key, FALSE)
  /\ UNCHANGED call_vars
  /\ UNCHANGED merge_vars
  /\ UNCHANGED mapper_vars
  /\ UNCHANGED aux_vars
  /\ UNCHANGED cache_vars

\* one run of clean_news.py
CleanNews ==
  /\ news_csv' = clean_news(news_csv, files.store)
  /\ UNCHANGED <<news_cache, files, fetched, env, unique_new_news, returned, judged,
                 run_log>>
  /\ UNCHANGED <<call_vars, merge_vars, mapper_vars, cache_vars>>
  /\ UNCHANGED aux_vars

\* one run of fix_category_groups.py
RepairStore ==
  /\ news_csv' = fix_category_groups_main(news_csv, files.store).csv
  /\ UNCHANGED <<news_cache, files, fetched, env, unique_new_news, returned, judged,
                 run_log>>
  /\ UNCHANGED <<call_vars, merge_vars, mapper_vars, cache_vars>>
  /\ UNCHANGED aux_vars

NextHistory ==
  \/ RunStored
  \/ CleanNews
  \/ RepairStore

SpecHistory ==
  InitHistory /\ [][NextHistory]_vars

\* ------------------------------------------------------------------------
\* Claims about the history of the store (specification SpecHistory)
\* ------------------------------------------------------------------------
\* every row of the store is a row of the store after the step, but for a
\* category_group that was empty
PersistedKept ==
  \A i \in DOMAIN news_csv :
     \E j \in DOMAIN news_csv' :
        \/ news_csv'[j] = news_csv[i]
        \/ /\ news_csv[i].category_group = ""
           /\ news_csv'[j] = [news_csv[i] EXCEPT
                                !.category_group = news_csv'[j].category_group]

\* C25: no run of main, of clean_news.py or of fix_category_groups.py removes
\* a row of the store or changes a field of it, but for the repair filling
\* an empty category_group: the set of stored items only grows.
C25_PersistedOnlyGrows ==
  [][PersistedKept]_vars

\* ------------------------------------------------------------------------
\* Specification of the second classification path as a pure function
\* ------------------------------------------------------------------------
\* the fragments titles and descriptions are built from: the titles of the
\* Naver items, a holiday and a sale in mixed case, a disaster
RelevanceFragments ==
  {NaverItems[n].title : n \in DOMAIN NaverItems}
    \cup {<<"N","a","t","i","o","n","a","l"," ","H","o","l","i","d","a","y">>,
          <<"B","i","g"," ","S","A","L","E">>,
          <<"E","a","r","t","h","q","u","a","k","e"," ","h","i","t"," ","M","a","n","i","l","a">>}

RelevanceTexts(n) ==
  {JoinFragments(fs) : fs \in UNION {[1..k -> RelevanceFragments] : k \in 0..n}}

InitRelevance ==
  /\ InitPipeline
  /\ InitNoMerge
  /\ InitNoMap
  /\ InitNoCache
  /\ InitNoAux
  /\ arg_title \in RelevanceTexts(MaxNaverTitleFragments)
  /\ arg_summary \in RelevanceTexts(MaxNaverDescriptionFragments)
  /\ result = Relevance(FALSE, None, None, None)
  /\ pc = "call"

\* one call is_relevant_news(arg_title, arg_summary)
CheckRelevance ==
  /\ pc = "call"
  /\ pc' = "return"
  /\ result' = is_relevant_news(arg_title, arg_summary)
  /\ UNCHANGED <<arg_title, arg_summary>>
  /\ UNCHANGED <<pipeline_vars, merge_vars, mapper_vars, cache_vars>>
  /\ UNCHANGED aux_vars

NextRelevance ==
  CheckRelevance

SpecRelevance ==
  InitRelevance /\ [][NextRelevance]_vars

\* ------------------------------------------------------------------------
\* Claims about the second classification path (specification SpecRelevance)
\* ------------------------------------------------------------------------
\* a keyword of the list is in the lower-cased text of the call
CallHas(keywords) ==
  any_keyword_in(keywords, CallText)

CallHasTraffic ==
  \E c \in DOMAIN TRAFFIC_IMPACT_KEYWORDS : CallHas(TRAFFIC_IMPACT_KEYWORDS[c].keywords)

\* C26: is_relevant_news returns (False, None, None, None) for every text
\* with a negative keyword, whatever else the text holds; for any other
\* text the result is relevant exactly when a gaming or a traffic-impact
\* keyword is in the text; a relevant result has news_type, category and
\* priority set and any other result has none of them; news_type gaming
\* comes with category gaming only; the priority is never low.
C26_ExclusionFirstThenInclusion ==
  pc = "return" =>
    /\ CallHas(NEGATIVE_KEYWORDS) => result = Relevance(FALSE, None, None, None)
    /\ ~CallHas(NEGATIVE_KEYWORDS)
          => (result.is_relevant
                <=> (CallHas(GAMING_REQUIRED_KEYWORDS) \/ CallHasTraffic))
    /\ result.is_relevant
          => /\ result.news_type \in {"gaming", "traffic_impact"}
             /\ result.category # None
             /\ result.priority \in {"high", "medium"}
    /\ ~result.is_relevant => result = Relevance(FALSE, None, None, None)
    /\ result.news_type = "gaming" => result.category = "gaming"
    /\ result.priority # "low"

\* the call was made for 'PUBG popup store' with the description 'Network
\* outage in Seoul': a negative, a gaming and a traffic-impact keyword
C26_Witness ==
  /\ pc = "return"
  /\ arg_title = NaverItems[3].title
  /\ arg_summary = NaverItems[2].title
  /\ CallHas(NEGATIVE_KEYWORDS)
  /\ CallHas(GAMING_REQUIRED_KEYWORDS)
  /\ CallHasTraffic
  /\ ~result.is_relevant

\* ------------------------------------------------------------------------
\* Cross-validation of the two paid providers (cross_validate_news)
\* ------------------------------------------------------------------------
\* the characters of the titles in the order of their code points
CodeOrder ==
  <<" ">> \o UpperCase \o LowerCase

code_rank(c) ==
  CHOOSE i \in DOMAIN CodeOrder : CodeOrder[i] = c

RECURSIVE str_less(_, _)
\* Python's s < t on strings
str_less(s, t) ==
  IF t = << >> THEN FALSE
  ELSE IF s = << >> THEN TRUE
  ELSE IF Head(s) # Head(t) THEN code_rank(Head(s)) < code_rank(Head(t))
  ELSE str_less(Tail(s), Tail(t))

RECURSIVE str_split(_)
\* s.split(): the words between runs of whitespace
str_split(s) ==
  LET t == str_lstrip(s)
  IN  IF t = << >> THEN << >>
      ELSE LET ends == {i \in DOMAIN t : t[i] \in Whitespace}
               n == IF ends = {} THEN Len(t) + 1
                    ELSE CHOOSE i \in ends : \A j \in ends : i <= j
           IN  <<SubSeq(t, 1, n - 1)>> \o str_split(SubSeq(t, n, Len(t)))

\* title_similarity(title1, title2) as the fraction [num, den]
title_similarity(title1, title2) ==
  LET title1_lower == str_lower(title1)
      title2_lower == str_lower(title2)
      words1 == {str_split(title1_lower)[i] : i \in DOMAIN str_split(title1_lower)}
      words2 == {str_split(title2_lower)[i] : i \in DOMAIN str_split(title2_lower)}
  IN  IF title1_lower = title2_lower THEN [num |-> 1, den |-> 1]
      ELSE IF words1 = {} \/ words2 = {} THEN [num |-> 0, den |-> 1]
      ELSE [num |-> Cardinality(words1 \cap words2),
            den |-> Cardinality(words1 \cup words2)]

\* similarity > 0.7
is_match(similarity) ==
  10 * similarity.num > 7 * similarity.den

\* the item of claude_news the loop of lines 1492-1500 leaves in best_match:
\* the first of those with the highest similarity above 0.7; 0 for none
best_match_of(title, claude_news) ==
  LET sim(k) == title_similarity(title, str_lower(claude_news[k].title))
      matches == {k \in DOMAIN claude_news : is_match(sim(k))}
      best == {k \in matches :
                 \A h \in matches : sim(k).num * sim(h).den >= sim(h).num * sim(k).den}
  IN  IF matches = {} THEN 0 ELSE CHOOSE k \in best : \A h \in best : k <= h

validated(news, confidence, validation, openai_summary, claude_summary) ==
  [title |-> news.title, summary |-> news.summary, confidence |-> confidence,
   validation |-> validation, openai_summary |-> openai_summary,
   claude_summary |-> claude_summary]

RECURSIVE openai_pass(_, _, _, _)
\* the loop over openai_news (lines 1483-1523) from position i
openai_pass(openai_news, claude_news, i, acc) ==
  IF i > Len(openai_news) THEN acc
  ELSE LET news == openai_news[i]
           title == str_lower(news.title)
           b == best_match_of(title, claude_news)
       IN  IF title \in acc.seen_titles
             THEN openai_pass(openai_news, claude_news, i + 1, acc)
           ELSE IF b # 0
             THEN openai_pass(openai_news, claude_news, i + 1,
                    [validated_news |->
                       Append(acc.validated_news,
                              [validated(news, "high", "both", news.summary,
                                         claude_news[b].summary)
                                 EXCEPT !.summary =
                                   IF Len(claude_news[b].summary) > Len(news.summary)
                                     THEN claude_news[b].summary ELSE news.summary]),
                     seen_titles |->
                       acc.seen_titles
                         \cup {title, str_lower(claude_news[b].title)}])
           ELSE openai_pass(openai_news, claude_news, i + 1,
                    [validated_news |->
                       Append(acc.validated_news,
                              validated(news, "medium", "openai_only", None, None)),
                     seen_titles |-> acc.seen_titles \cup {title}])

RECURSIVE claude_pass(_, _, _)
\* the loop over claude_news (lines 1526-1533) from position i
claude_pass(claude_news, i, acc) ==
  IF i > Len(claude_news) THEN acc
  ELSE LET news == claude_news[i]
           title == str_lower(news.title)
       IN  IF title \in acc.seen_titles THEN claude_pass(claude_news, i + 1, acc)
           ELSE claude_pass(claude_news, i + 1,
                  [validated_news |->
                     Append(acc.validated_news,
                            validated(news, "medium", "claude_only", None, None)),
                   seen_titles |-> acc.seen_titles \cup {title}])

\* the sort key of line 1536 and Python's order of tuples: False < True
sort_key_less(a, b) ==
  \/ a.confidence # "high" /\ b.confidence = "high"
  \/ /\ (a.confidence = "high") = (b.confidence = "high")
     /\ str_less(a.title, b.title)

RECURSIVE list_sort(_)
\* list.sort(key=...): ascending and stable
list_sort(l) ==
  IF l = << >> THEN << >>
  ELSE LET first == CHOOSE i \in DOMAIN l :
                       /\ \A j \in DOMAIN l : ~sort_key_less(l[j], l[i])
                       /\ \A j \in 1..(i - 1) : sort_key_less(l[i], l[j])
                                                  \/ sort_key_less(l[j], l[i])
           rest == [k \in 1..(Len(l) - 1) |-> IF k < first THEN l[k] ELSE l[k + 1]]
       IN  <<l[first]>> \o list_sort(rest)

cross_validate_news(openai_news, claude_news) ==
  LET both == claude_pass(claude_news, 1,
                          openai_pass(openai_news, claude_news, 1,
                                      [validated_news |-> << >>, seen_titles |-> {}]))
  IN  list_sort(both.validated_news)

\* what the providers return: a title, in two spellings, and a summary
XvalItems ==
  [title : {<<"P","o","w","e","r"," ","o","u","t","a","g","e">>,
            <<"p","o","w","e","r"," ","O","u","t","a","g","e">>,
            <<"A","i","r"," ","r","a","i","d">>,
            <<"Z","o","o">>},
   summary : {<< >>, <<"s">>}]

XvalLists ==
  UNION {[1..n -> XvalItems] : n \in 0..MaxXvalLen}

InitXval ==
  /\ InitPipeline
  /\ InitCall
  /\ InitNoMerge
  /\ InitNoMap
  /\ InitNoCache
  /\ InitNoRetry
  /\ InitNoDigest
  /\ InitNoRepair
  /\ xval_args \in [openai_news : XvalLists, claude_news : XvalLists]
  /\ xval_result = << >>

\* one call cross_validate_news(openai_news, claude_news)
CrossValidate ==
  /\ xval_result = << >>
  /\ xval_result' = <<cross_validate_news(xval_args.openai_news,
                                          xval_args.claude_news)>>
  /\ UNCHANGED xval_args
  /\ UNCHANGED <<pipeline_vars, call_vars, merge_vars, mapper_vars, cache_vars>>
  /\ UNCHANGED <<retry_vars, digest_vars, repair_vars>>

NextXval ==
  CrossValidate

SpecXval ==
  InitXval /\ [][NextXval]_vars

\* ------------------------------------------------------------------------
\* Claims about the cross-validation (specification SpecXval)
\* ------------------------------------------------------------------------
\* C27: in the list cross_validate_news returns, every item of confidence
\* high comes before every item of confidence medium.
C27_HighBeforeMedium ==
  xval_result # << >> =>
    \A i, j \in DOMAIN xval_result[1] :
       (xval_result[1][i].confidence = "medium" /\ xval_result[1][j].confidence = "high")
          => j < i

\* ------------------------------------------------------------------------
\* Specification of the two category-group mappers as pure functions
\* ------------------------------------------------------------------------
\* two categories are to be mapped, by both mappers
InitMappers ==
  /\ InitPipeline
  /\ InitCall
  /\ InitNoMerge
  /\ InitNoCache
  /\ InitNoAux
  /\ map_args \in Categories \X Categories
  /\ map_results = << >>

\* the next category is given to map_to_group_category of fetch_news.py and
\* to map_to_group_category of fix_category_groups.py
MapByBoth ==
  /\ Len(map_results) < Len(map_args)
  /\ map_results' =
       Append(map_results,
              [pipeline |-> map_to_group_category(map_args[Len(map_results) + 1]),
               repair |-> fix_map_to_group_category(map_args[Len(map_results) + 1])])
  /\ UNCHANGED map_args
  /\ UNCHANGED <<pipeline_vars, call_vars, merge_vars, cache_vars>>
  /\ UNCHANGED aux_vars

NextMappers ==
  MapByBoth

SpecMappers ==
  InitMappers /\ [][NextMappers]_vars

\* ------------------------------------------------------------------------
\* Claims about the two mappers (specification SpecMappers)
\* ------------------------------------------------------------------------
\* C28: for every category, also one that differs from an entry of the
\* table by letter case or surrounding blanks only, the mapper of the
\* repair returns the group the mapper of the pipeline returns.
C28_MappersAgree ==
  \A k \in DOMAIN map_results : map_results[k].pipeline = map_results[k].repair

\* ------------------------------------------------------------------------
\* Specification of the classifier over texts with and without country names
\* ------------------------------------------------------------------------
\* the summaries: none, the name of a watched country, a critical keyword
\* with the name of a watched country
CountrySummaries ==
  {<< >>, <<"J","a","k","a","r","t","a">>, FeedEntries[1].title}

InitCountry ==
  /\ InitPipeline
  /\ InitNoMerge
  /\ InitNoMap
  /\ InitNoCache
  /\ InitNoAux
  /\ arg_title \in TextsUpTo(MaxCountryFragments)
  /\ arg_summary \in CountrySummaries
  /\ result = Triple(None, None, None)
  /\ pc = "call"

SpecCountry ==
  InitCountry /\ [][NextClassify]_vars

\* ------------------------------------------------------------------------
\* Claims about the country branch (specification SpecCountry)
\* ------------------------------------------------------------------------
\* C29: the result of every call is the result of the classification over
\* an empty list of watched countries: a country name decides nothing.
C29_CountryBranchDecidesNothing ==
  pc = "return"
     => result = classify_news_priority_with(arg_title, arg_summary, << >>)

\* the call was made for a text with the name of a watched country, without
\* critical keyword and without exclusion pattern
C29_Witness ==
  /\ pc = "return"
  /\ HasCountry
  /\ ~HasCritical
  /\ ~HasExcluded
  /\ result.priority # "high"

\* ------------------------------------------------------------------------
\* Claims about the list a retried call returns (specification SpecRetry)
\* ------------------------------------------------------------------------
\* fetch_news_from_rss has returned (line 1229)
RssReturned ==
  retry_pc \in {"returned", "groq", "paid", "done"}

\* C30: the list fetch_news_from_rss returns holds each accepted feed entry
\* at most once, whatever attempts raised and completed before: what an
\* attempt that raised had appended is not in the list a second time after
\* a later attempt completed.
C30_EachEntryAtMostOnce ==
  RssReturned =>
    \A i, j \in DOMAIN retry_news_list :
       i # j => retry_news_list[i] # retry_news_list[j]

====
